---- MODULE Spec2Model ----
(***************************************************************************)
(* Model of Pixelle-Video's HTML frame generator                           *)
(* (src/pixelle_video/services/frame_html.py): the placeholder DSL         *)
(* ({{name:type=default}}), its parser, its substitution step, and the     *)
(* render call generate_frame with its image normalisation, lazily created *)
(* Html2Image session and file relocation.                                 *)
(*                                                                         *)
(* Text is a sequence of one-character strings, so that the regular        *)
(* expression of the source is modelled by what it matches.  Python values *)
(* are tagged records: None, str, bool, int and float.                     *)
(***************************************************************************)
EXTENDS Integers, Sequences, FiniteSets, TLC

\* ------------------------------------------------------------------ values

None == [t |-> "none"]
StrV(s) == [t |-> "str", s |-> s]
\* A dict: its values under its keys
Dict(d) == [t |-> "dict", d |-> d]
BoolV(b) == [t |-> "bool", b |-> b]

\* ------------------------------------------------------------- characters

LowerSeq == << "a","b","c","d","e","f","g","h","i","j","k","l","m",
               "n","o","p","q","r","s","t","u","v","w","x","y","z" >>
UpperSeq == << "A","B","C","D","E","F","G","H","I","J","K","L","M",
               "N","O","P","Q","R","S","T","U","V","W","X","Y","Z" >>
DigitSeq == << "0","1","2","3","4","5","6","7","8","9" >>

Range(f) == { f[i] : i \in DOMAIN f }
Lower == Range(LowerSeq)
Upper == Range(UpperSeq)
Digit == Range(DigitSeq)

\* [a-zA-Z_] and [a-zA-Z0-9_] of PARAM_PATTERN
NameStart == Lower \cup Upper \cup {"_"}
NameChar == NameStart \cup Digit

DigitValue(c) == (CHOOSE i \in DOMAIN DigitSeq : DigitSeq[i] = c) - 1

\* The characters U+0001 to U+00FF by code point, and ord(c) of a
\* character.  U+0060 cannot be written in a string of this notation; its
\* place holds the empty string.
CodePoints ==
    << "", "", "", "", "", "", "", "", "\t", "\n", "", "\f", "\r", "", "",
       "", "", "", "", "", "", "", "", "", "", "", "", "", "", "", "",
       " ", "!", "\"", "#", "$", "%", "&", "'", "(", ")", "*", "+", ",", "-", ".", "/",
       "0", "1", "2", "3", "4", "5", "6", "7", "8", "9", ":", ";", "<", "=", ">", "?",
       "@", "A", "B", "C", "D", "E", "F", "G", "H", "I", "J", "K", "L", "M", "N", "O",
       "P", "Q", "R", "S", "T", "U", "V", "W", "X", "Y", "Z", "[", "\\", "]", "^", "_",
       "", "a", "b", "c", "d", "e", "f", "g", "h", "i", "j", "k", "l", "m", "n", "o",
       "p", "q", "r", "s", "t", "u", "v", "w", "x", "y", "z", "{", "|", "}", "~", "",
       "", "", "", "", "", "", "", "", "", "", "", "", "", "", "", "",
       "", "", "", "", "", "", "", "", "", "", "", "", "", "", "", "",
       " ", "¡", "¢", "£", "¤", "¥", "¦", "§", "¨", "©", "ª", "«", "¬", "­", "®", "¯",
       "°", "±", "²", "³", "´", "µ", "¶", "·", "¸", "¹", "º", "»", "¼", "½", "¾", "¿",
       "À", "Á", "Â", "Ã", "Ä", "Å", "Æ", "Ç", "È", "É", "Ê", "Ë", "Ì", "Í", "Î", "Ï",
       "Ð", "Ñ", "Ò", "Ó", "Ô", "Õ", "Ö", "×", "Ø", "Ù", "Ú", "Û", "Ü", "Ý", "Þ", "ß",
       "à", "á", "â", "ã", "ä", "å", "æ", "ç", "è", "é", "ê", "ë", "ì", "í", "î", "ï",
       "ð", "ñ", "ò", "ó", "ô", "õ", "ö", "÷", "ø", "ù", "ú", "û", "ü", "ý", "þ", "ÿ" >>
Ord(c) == CHOOSE i \in DOMAIN CodePoints : CodePoints[i] = c

\* str.lower() on one character, for the characters up to U+00FF
LowerChar(c) ==
    IF c \in Upper
    THEN LowerSeq[CHOOSE i \in DOMAIN UpperSeq : UpperSeq[i] = c]
    ELSE IF c \in { CodePoints[n] : n \in (192..222) \ {215} }
    THEN CodePoints[Ord(c) + 32]
    ELSE c

\* str.lower()
LowerStr(s) == [i \in DOMAIN s |-> LowerChar(s[i])]

\* The words of the source, as text.
W_text == << "t","e","x","t" >>
W_number == << "n","u","m","b","e","r" >>
W_color == << "c","o","l","o","r" >>
W_bool == << "b","o","o","l" >>
W_true == << "t","r","u","e" >>
W_false == << "f","a","l","s","e" >>
W_yes == << "y","e","s" >>
W_on == << "o","n" >>
W_title == << "t","i","t","l","e" >>
W_image == << "i","m","a","g","e" >>
W_content_title == << "c","o","n","t","e","n","t","_","t","i","t","l","e" >>
W_content_author == << "c","o","n","t","e","n","t","_","a","u","t","h","o","r" >>
W_content_subtitle ==
    << "c","o","n","t","e","n","t","_","s","u","b","t","i","t","l","e" >>
W_content_genre == << "c","o","n","t","e","n","t","_","g","e","n","r","e" >>

\* ------------------------------------------------------ the placeholder DSL

PRESET_PARAMS ==
    { W_title, W_text, W_image, W_content_title, W_content_author,
      W_content_subtitle, W_content_genre }

SUPPORTED_TYPES == { W_text, W_number, W_color, W_bool }

\* The first index at or after i whose character is not in class C
\* (a greedy run of a character class).
RunEnd(s, i, C) ==
    IF i > Len(s) THEN i
    ELSE CHOOSE j \in i..(Len(s) + 1) :
            (j = Len(s) + 1 \/ s[j] \notin C) /\ \A k \in i..(j - 1) : s[k] \in C

\* The first index at or after i whose character is ch (a greedy [^ch] run).
RunEndNot(s, i, ch) ==
    IF i > Len(s) THEN i
    ELSE CHOOSE j \in i..(Len(s) + 1) :
            (j = Len(s) + 1 \/ s[j] = ch) /\ \A k \in i..(j - 1) : s[k] # ch

NoMatch == [matched |-> FALSE]

\* PARAM_PATTERN anchored at index i:
\*   \{\{([a-zA-Z_][a-zA-Z0-9_]*)(?::([a-z]+))?(?:=([^}]+))?\}\}
\* Every quantifier is greedy and is followed by a character outside its
\* class, so backtracking never finds a match the longest runs miss: the
\* match at i, when there is one, is the one computed here.
PatternMatchAt(s, i) ==
    LET n0 == i + 2
        n1 == RunEnd(s, n0 + 1, NameChar)
        tEnd == RunEnd(s, n1 + 1, Lower)
        hasType == n1 <= Len(s) /\ s[n1] = ":" /\ tEnd > n1 + 1
        t1 == IF hasType THEN tEnd ELSE n1
        dEnd == RunEndNot(s, t1 + 1, "}")
        hasDef == t1 <= Len(s) /\ s[t1] = "=" /\ dEnd > t1 + 1
        d1 == IF hasDef THEN dEnd ELSE t1
    IN  IF /\ i + 1 <= Len(s) /\ s[i] = "{" /\ s[i + 1] = "{"
           /\ n0 <= Len(s) /\ s[n0] \in NameStart
           /\ d1 + 1 <= Len(s) /\ s[d1] = "}" /\ s[d1 + 1] = "}"
        THEN [ matched |-> TRUE,
               start |-> i,
               end |-> d1 + 1,
               group1 |-> SubSeq(s, n0, n1 - 1),
               group2 |-> IF hasType THEN StrV(SubSeq(s, n1 + 1, tEnd - 1)) ELSE None,
               group3 |-> IF hasDef THEN StrV(SubSeq(s, t1 + 1, dEnd - 1)) ELSE None ]
        ELSE NoMatch

\* ------------------------------------------------------- int() and float()

\* The whitespace int() and float() skip around a number, for the characters
\* up to U+00FF: tab, newline, vertical tab, form feed, carriage return,
\* space, U+0085 and U+00A0.  (U+001C..U+001F are str.isspace() characters,
\* yet int() and float() raise ValueError on them.)
WhiteSpace == { CodePoints[n] : n \in {9, 10, 11, 12, 13, 32, 133, 160} }
IsWs(c) == c \in WhiteSpace

LStrip(s) == SubSeq(s, RunEnd(s, 1, WhiteSpace), Len(s))

RStrip(s) ==
    SubSeq(s, 1, CHOOSE n \in 0..Len(s) :
                    (n = 0 \/ ~IsWs(s[n])) /\ \A k \in (n + 1)..Len(s) : IsWs(s[k]))

\* The text of a number without the whitespace around it.
Strip(s) == RStrip(LStrip(s))

HasSign(s) == s # << >> /\ Head(s) \in {"+", "-"}
Unsigned(s) == IF HasSign(s) THEN Tail(s) ELSE s
IsNegative(s) == s # << >> /\ Head(s) = "-"

\* A digit string of a Python numeric literal: digits, with single
\* underscores allowed between digits.
IsDigits(s) ==
    /\ s # << >>
    /\ \A i \in DOMAIN s : s[i] \in Digit \cup {"_"}
    /\ s[1] \in Digit /\ s[Len(s)] \in Digit
    /\ \A i \in 1..(Len(s) - 1) : ~(s[i] = "_" /\ s[i + 1] = "_")

OnlyDigits(s) == SelectSeq(s, LAMBDA c : c \in Digit)

RECURSIVE DigitsValue(_)
DigitsValue(ds) ==
    IF ds = << >> THEN 0
    ELSE 10 * DigitsValue(SubSeq(ds, 1, Len(ds) - 1)) + DigitValue(ds[Len(ds)])

RECURSIVE NatToStr(_)
NatToStr(n) ==
    IF n < 10 THEN << DigitSeq[n + 1] >>
    ELSE NatToStr(n \div 10) \o << DigitSeq[(n % 10) + 1] >>

\* str(value) of an int
IntToStr(n) == IF n < 0 THEN << "-" >> \o NatToStr(-n) ELSE NatToStr(n)

\* An int is held as its decimal numeral, str(value): Python's ints have no
\* width.
IntOf(negative, digits) ==
    LET ds == SubSeq(digits, RunEnd(digits, 1, {"0"}), Len(digits))
    IN  [t |-> "int",
         dec |-> IF ds = << >> THEN << "0" >>
                 ELSE IF negative THEN << "-" >> \o ds ELSE ds]

IntV(n) == [t |-> "int", dec |-> IntToStr(n)]

\* A float is a binary double, held as its repr(): the shortest decimal
\* that reads back as the same double, or inf, -inf, nan.
FloatV(repr) == [t |-> "float", repr |-> repr]

ValueError == [ok |-> FALSE]

\* sys.get_int_max_str_digits()
MAX_STR_DIGITS == 4300

\* int(value_str): surrounding whitespace, an optional sign, digits.
IntParse(value_str) ==
    LET text == Strip(value_str)
        body == Unsigned(text)
    IN  IF IsDigits(body) /\ Len(OnlyDigits(body)) <= MAX_STR_DIGITS
        THEN [ok |-> TRUE, value |-> IntOf(IsNegative(text), OnlyDigits(body))]
        ELSE ValueError

\* Exact decimals.  A decimal is a sequence d of digits, most significant
\* first, and the number p of them that are fraction digits (digits missing
\* at the front are zeros): the value is d / 10^p.
Zeros(n) == [i \in 1..n |-> 0]
Fix(d, p) == [d |-> d, p |-> p]

FirstNonZero(d) == RunEnd(d, 1, {0})
StripZeros(d) == SubSeq(d, FirstNonZero(d), Len(d))

\* x * 2: no carry runs further than one digit.
Double(x) ==
    LET d == IF x.d # << >> /\ x.d[1] >= 5 THEN << 0 >> \o x.d ELSE x.d
        r == [i \in 1..Len(d) |->
                ((2 * d[i]) % 10) + (IF i < Len(d) /\ d[i + 1] >= 5 THEN 1 ELSE 0)]
    IN  IF x.p > 0 /\ r # << >> /\ r[Len(r)] = 0
        THEN Fix(SubSeq(r, 1, Len(r) - 1), x.p - 1)
        ELSE Fix(r, x.p)

\* x / 2
Halve(x) ==
    LET odd == x.d # << >> /\ x.d[Len(x.d)] % 2 = 1
        d == IF odd THEN x.d \o << 0 >> ELSE x.d
        r == [i \in 1..Len(d) |->
                (d[i] \div 2) + (IF i > 1 /\ d[i - 1] % 2 = 1 THEN 5 ELSE 0)]
    IN  Fix(IF r # << >> /\ r[1] = 0 THEN Tail(r) ELSE r,
            IF odd THEN x.p + 1 ELSE x.p)

RECURSIVE Doubled(_, _)
Doubled(x, n) ==
    IF n = 0 \/ x.d = << >> THEN x
    ELSE IF n = 1 THEN Double(x)
    ELSE LET half == Doubled(x, n \div 2)
         IN  IF half.d = << >> THEN half ELSE Doubled(half, n - (n \div 2))

RECURSIVE Halved(_, _)
Halved(x, n) ==
    IF n = 0 \/ x.d = << >> THEN x
    ELSE IF n = 1 THEN Halve(x)
    ELSE LET half == Halved(x, n \div 2)
         IN  IF half.d = << >> THEN half ELSE Halved(half, n - (n \div 2))

\* x * 2^k, half of the steps at a time
Scale(x, k) == IF k >= 0 THEN Doubled(x, k) ELSE Halved(x, -k)

IntPart(x) == IF Len(x.d) > x.p THEN SubSeq(x.d, 1, Len(x.d) - x.p) ELSE << >>
FracPart(x) ==
    IF Len(x.d) >= x.p THEN SubSeq(x.d, Len(x.d) - x.p + 1, Len(x.d))
    ELSE Zeros(x.p - Len(x.d)) \o x.d

\* -1, 0, 1 as the integer a is below, equal to or above the integer b
Cmp(a, b) ==
    LET n == IF Len(a) > Len(b) THEN Len(a) ELSE Len(b)
        x == Zeros(n - Len(a)) \o a
        y == Zeros(n - Len(b)) \o b
        i == CHOOSE k \in 1..n : x[k] # y[k] /\ \A j \in 1..(k - 1) : x[j] = y[j]
    IN  IF x = y THEN 0 ELSE IF x[i] < y[i] THEN -1 ELSE 1

\* d + 1
Inc(d) ==
    LET k == CHOOSE n \in 0..Len(d) :
                (n = 0 \/ d[n] # 9) /\ \A j \in (n + 1)..Len(d) : d[j] = 9
    IN  IF k = 0 THEN << 1 >> \o Zeros(Len(d))
        ELSE [i \in 1..Len(d) |-> IF i < k THEN d[i] ELSE IF i = k THEN d[i] + 1 ELSE 0]

\* d - 1, for d above 0
Dec(d) ==
    LET k == CHOOSE n \in 1..Len(d) :
                d[n] # 0 /\ \A j \in (n + 1)..Len(d) : d[j] = 0
    IN  [i \in 1..Len(d) |-> IF i < k THEN d[i] ELSE IF i = k THEN d[i] - 1 ELSE 9]

\* A double is zero, infinite, not a number, or q * 2^e with q below 2^53,
\* and q at least 2^52 unless e is the least exponent (a subnormal).
TWO52 == << 4,5,0,3,5,9,9,6,2,7,3,7,0,4,9,6 >>
TWO53 == << 9,0,0,7,1,9,9,2,5,4,7,4,0,9,9,2 >>
MIN_EXP == -1074
MAX_EXP == 971
Zero == [kind |-> "zero"]
Inf == [kind |-> "inf"]
NaN == [kind |-> "nan"]

RECURSIVE Normal(_, _)
Normal(y, e) ==
    IF Cmp(IntPart(y), TWO53) >= 0 THEN Normal(Halve(y), e + 1)
    ELSE [y |-> y, e |-> e]

\* The double nearest to D * 10^E, ties to the even significand; D is a
\* digit sequence that starts with a digit above 0.
Nearest(D, E) ==
    LET x == Len(D) - 1 + E
        \* a number that floor(log2(D * 10^E)) is not below
        low == (IF x >= 0 THEN (x * 3321928) \div 1000000
                ELSE -((((-x) * 3321929) \div 1000000) + 1)) - 1
        e0 == IF low - 52 < MIN_EXP THEN MIN_EXP ELSE low - 52
        v == IF E >= 0 THEN Fix(D \o Zeros(E), 0) ELSE Fix(D, -E)
        Significand(q0, frac) ==
            LET odd == q0 # << >> /\ q0[Len(q0)] % 2 = 1
                up == /\ frac # << >>
                      /\ \/ frac[1] > 5
                         \/ frac[1] = 5 /\ (odd \/ \E i \in 2..Len(frac) : frac[i] # 0)
            IN  StripZeros(IF up THEN Inc(q0) ELSE q0)
        Double64(q, e) ==
            IF q = TWO53 THEN [kind |-> "finite", q |-> TWO52, e |-> e + 1]
            ELSE IF q = << >> THEN Zero
            ELSE [kind |-> "finite", q |-> q, e |-> e]
        Rounded(n) == Double64(Significand(IntPart(n.y), FracPart(n.y)), n.e)
        Finite(d) == IF d.kind = "finite" /\ d.e > MAX_EXP THEN Inf ELSE d
    IN  IF x > 308 THEN Inf
        ELSE IF x < -324 THEN Zero
        ELSE Finite(Rounded(Normal(Scale(v, -e0), e0)))

\* The digits repr() writes for the double of the decimals lo < v < hi, lo
\* and hi half way to the neighbouring doubles (inclusive when the
\* significand is even), all three digit sequences of one length: the
\* shortest prefix of v, as it is or one up in its last place, that lies
\* between them, and of two the one nearer to v.
RECURSIVE Shortest(_, _, _, _, _)
Shortest(v, lo, hi, even, pos) ==
    LET N == Len(v)
        down == [i \in 1..N |-> IF i <= pos THEN v[i] ELSE 0]
        upper == Inc(SubSeq(v, 1, pos)) \o Zeros(N - pos)
        j == Cmp(lo, down)
        j1 == Cmp(hi, upper)
        dig == v[pos]
        next == IF pos < N THEN v[pos + 1] ELSE 0
        rest == \E i \in (pos + 2)..N : v[i] # 0
        nearer == next > 5 \/ (next = 5 /\ (rest \/ dig % 2 = 1))
    IN  IF j1 = 0 /\ even THEN (IF dig = 9 \/ j > 0 THEN upper ELSE down)
        ELSE IF j < 0 \/ (j = 0 /\ even)
        THEN (IF down # v /\ j1 > 0 /\ nearer THEN upper ELSE down)
        ELSE IF j1 > 0 THEN upper
        ELSE Shortest(v, lo, hi, even, pos + 1)

\* float_repr_style 'short' of repr(): the digits and the place of the
\* point (the value is 0.digits * 10^decpt), in exponent form when decpt
\* is above 16 or below -3.
FormatShort(digits, decpt) ==
    LET ds == [i \in 1..Len(digits) |-> DigitSeq[digits[i] + 1]]
        n == Len(ds)
        exp == decpt - 1
        two == IF exp < 10 /\ exp > -10 THEN << "0" >> ELSE << >>
    IN  IF decpt <= -4 \/ decpt > 16
        THEN << ds[1] >> \o (IF n > 1 THEN << "." >> \o Tail(ds) ELSE << >>)
             \o (IF exp < 0 THEN << "e", "-" >> \o two \o NatToStr(-exp)
                 ELSE << "e", "+" >> \o two \o NatToStr(exp))
        ELSE IF decpt <= 0
        THEN << "0", "." >> \o [i \in 1..(-decpt) |-> "0"] \o ds
        ELSE IF decpt >= n
        THEN ds \o [i \in 1..(decpt - n) |-> "0"] \o << ".", "0" >>
        ELSE SubSeq(ds, 1, decpt) \o << "." >> \o SubSeq(ds, decpt + 1, n)

\* repr() of a double above 0
ReprFinite(q, e) ==
    LET q4 == Double(Double(Fix(q, 0))).d
        Between(v, lo, hi) ==
            LET P == IF hi.p > lo.p THEN hi.p ELSE lo.p
                N == 1 + P + (IF Len(hi.d) > hi.p THEN Len(hi.d) - hi.p ELSE 0)
                Aligned(x) ==
                    LET body == x.d \o Zeros(P - x.p) IN Zeros(N - Len(body)) \o body
                Written(chosen) ==
                    LET first == FirstNonZero(chosen)
                        last == CHOOSE n \in 1..N :
                                    chosen[n] # 0 /\ \A k \in (n + 1)..N : chosen[k] = 0
                    IN  FormatShort(SubSeq(chosen, first, last), N - P - first + 1)
                From(V) == Shortest(V, Aligned(lo), Aligned(hi), q[Len(q)] % 2 = 0,
                                    FirstNonZero(V))
            IN  Written(From(Aligned(v)))
    IN  Between(Scale(Fix(q4, 0), e - 2),
                Scale(Fix(IF q = TWO52 /\ e > MIN_EXP THEN Dec(q4) ELSE Dec(Dec(q4)), 0),
                      e - 2),
                Scale(Fix(Inc(Inc(q4)), 0), e - 2))

Repr(negative, double) ==
    (IF negative /\ double.kind # "nan" THEN << "-" >> ELSE << >>)
    \o CASE double.kind = "zero" -> << "0", ".", "0" >>
         [] double.kind = "inf" -> << "i", "n", "f" >>
         [] double.kind = "nan" -> << "n", "a", "n" >>
         [] double.kind = "finite" -> ReprFinite(double.q, double.e)

IndexOf(s, ch) == RunEndNot(s, 1, ch)
Contains(s, ch) == IndexOf(s, ch) <= Len(s)

\* An exponent with more digits than this is beyond every double.
MAX_EXP_DIGITS == 6

\* float(value_str): surrounding whitespace, an optional sign, then inf,
\* infinity or nan in any case, or digits with an optional point (at least
\* one digit) and an optional exponent.
FloatParse(value_str) ==
    LET text == Strip(value_str)
        body == Unsigned(text)
        word == [i \in 1..Len(body) |-> LowerChar(body[i])]
        ePos == IF Contains(body, "e") THEN IndexOf(body, "e") ELSE IndexOf(body, "E")
        mant == SubSeq(body, 1, ePos - 1)
        hasExp == ePos <= Len(body)
        expTxt == SubSeq(body, ePos + 1, Len(body))
        expOk == ~hasExp \/ IsDigits(Unsigned(expTxt))
        expDigits == LET ds == OnlyDigits(Unsigned(expTxt))
                     IN  SubSeq(ds, RunEnd(ds, 1, {"0"}), Len(ds))
        expAbs == IF Len(expDigits) > MAX_EXP_DIGITS THEN 1000000
                  ELSE DigitsValue(expDigits)
        exp == IF ~hasExp THEN 0 ELSE IF IsNegative(expTxt) THEN -expAbs ELSE expAbs
        dot == IndexOf(mant, ".")
        ip == SubSeq(mant, 1, dot - 1)
        fp == SubSeq(mant, dot + 1, Len(mant))
        mantOk == /\ ip = << >> \/ IsDigits(ip)
                  /\ fp = << >> \/ IsDigits(fp)
                  /\ ip # << >> \/ fp # << >>
        all == OnlyDigits(ip) \o OnlyDigits(fp)
        D == StripZeros([i \in 1..Len(all) |-> DigitValue(all[i])])
        double == IF D = << >> THEN Zero ELSE Nearest(D, exp - Len(OnlyDigits(fp)))
    IN  IF word \in { << "i","n","f" >>, << "i","n","f","i","n","i","t","y" >> }
        THEN [ok |-> TRUE, value |-> FloatV(Repr(IsNegative(text), Inf))]
        ELSE IF word = << "n","a","n" >>
        THEN [ok |-> TRUE, value |-> FloatV(Repr(IsNegative(text), NaN))]
        ELSE IF mantOk /\ expOk
        THEN [ok |-> TRUE, value |-> FloatV(Repr(IsNegative(text), double))]
        ELSE ValueError

\* The default literals that the templates of the specifications write:
\* 3.5, and every text of a few characters over digits, point, sign,
\* exponent mark and hash.
T_35 == << "3",".","5" >>
MaxLit == 3
LitChars == { "0", "1", ".", "-", "e", "#" }
LiteralSet == UNION { [1..n -> LitChars] : n \in 1..MaxLit }

\* float(value_str) as line 196 calls it.
FloatOf(value_str) == FloatParse(value_str)

\* ------------------------------------------------------------ the parser

\* _parse_default_value that records a color literal as written.
parse_default_value_RawColor(param_type, value_str) ==
    IF value_str = None
    THEN CASE param_type = W_text -> StrV(<< >>)
           [] param_type = W_number -> IntV(0)
           [] param_type = W_color -> StrV(<< "#","0","0","0","0","0","0" >>)
           [] param_type = W_bool -> BoolV(FALSE)
           [] OTHER -> StrV(<< >>)
    ELSE IF param_type = W_number
    THEN LET r == IF Contains(value_str.s, ".") THEN FloatOf(value_str.s)
                  ELSE IntParse(value_str.s)
         IN  IF r.ok THEN r.value ELSE IntV(0)
    ELSE IF param_type = W_bool
    THEN BoolV(LowerStr(value_str.s) \in { W_true, << "1" >>, W_yes, W_on })
    ELSE value_str

\* _parse_default_value that parses every number literal with float().
parse_default_value_NumberAsFloat(param_type, value_str) ==
    IF value_str = None
    THEN CASE param_type = W_text -> StrV(<< >>)
           [] param_type = W_number -> IntV(0)
           [] param_type = W_color -> StrV(<< "#","0","0","0","0","0","0" >>)
           [] param_type = W_bool -> BoolV(FALSE)
           [] OTHER -> StrV(<< >>)
    ELSE IF param_type = W_number
    THEN LET r == FloatOf(value_str.s)
         IN  IF r.ok THEN r.value ELSE IntV(0)
    ELSE IF param_type = W_bool
    THEN BoolV(LowerStr(value_str.s) \in { W_true, << "1" >>, W_yes, W_on })
    ELSE IF param_type = W_color
    THEN IF value_str.s # << >> /\ Head(value_str.s) = "#" THEN value_str
         ELSE StrV(<< "#" >> \o value_str.s)
    ELSE value_str

\* _parse_default_value that gives the empty string for every absent literal.
parse_default_value_EmptyWhenAbsent(param_type, value_str) ==
    IF value_str = None THEN StrV(<< >>)
    ELSE IF param_type = W_number
    THEN LET r == IF Contains(value_str.s, ".") THEN FloatOf(value_str.s)
                  ELSE IntParse(value_str.s)
         IN  IF r.ok THEN r.value ELSE IntV(0)
    ELSE IF param_type = W_bool
    THEN BoolV(LowerStr(value_str.s) \in { W_true, << "1" >>, W_yes, W_on })
    ELSE IF param_type = W_color
    THEN IF value_str.s # << >> /\ Head(value_str.s) = "#" THEN value_str
         ELSE StrV(<< "#" >> \o value_str.s)
    ELSE value_str

\* _parse_default_value that prepends "#" to every color literal.
parse_default_value_AlwaysHash(param_type, value_str) ==
    IF value_str = None
    THEN CASE param_type = W_text -> StrV(<< >>)
           [] param_type = W_number -> IntV(0)
           [] param_type = W_color -> StrV(<< "#","0","0","0","0","0","0" >>)
           [] param_type = W_bool -> BoolV(FALSE)
           [] OTHER -> StrV(<< >>)
    ELSE IF param_type = W_number
    THEN LET r == IF Contains(value_str.s, ".") THEN FloatOf(value_str.s)
                  ELSE IntParse(value_str.s)
         IN  IF r.ok THEN r.value ELSE IntV(0)
    ELSE IF param_type = W_bool
    THEN BoolV(LowerStr(value_str.s) \in { W_true, << "1" >>, W_yes, W_on })
    ELSE IF param_type = W_color
    THEN StrV(<< "#" >> \o value_str.s)
    ELSE value_str

\* _parse_default_value(param_type, value_str); value_str is None or a str.
parse_default_value(param_type, value_str) ==
    IF value_str = None
    THEN CASE param_type = W_text -> StrV(<< >>)
           [] param_type = W_number -> IntV(0)
           [] param_type = W_color -> StrV(<< "#","0","0","0","0","0","0" >>)
           [] param_type = W_bool -> BoolV(FALSE)
           [] OTHER -> StrV(<< >>)
    ELSE IF param_type = W_number
    THEN LET r == IF Contains(value_str.s, ".") THEN FloatOf(value_str.s)
                  ELSE IntParse(value_str.s)
         IN  IF r.ok THEN r.value ELSE IntV(0)
    ELSE IF param_type = W_bool
    THEN BoolV(LowerStr(value_str.s) \in { W_true, << "1" >>, W_yes, W_on })
    ELSE IF param_type = W_color
    THEN IF value_str.s # << >> /\ Head(value_str.s) = "#" THEN value_str
         ELSE StrV(<< "#" >> \o value_str.s)
    ELSE value_str

\* params is the dict being built, in insertion order: a sequence of entries.
ParamNames(params) == { params[i].name : i \in DOMAIN params }

\* ParseStep where a later occurrence of a name overwrites its entry.
ParseStep_LastWins(params, match) ==
    LET param_type == IF match.group2 = None THEN W_text ELSE match.group2.s
        eff_type == IF param_type \notin SUPPORTED_TYPES THEN W_text ELSE param_type
        entry == [ name |-> match.group1, type |-> eff_type,
                   default |-> parse_default_value(eff_type, match.group3),
                   label |-> match.group1 ]
    IN  IF match.group1 \in PRESET_PARAMS THEN params
        ELSE IF match.group1 \in ParamNames(params)
        THEN [i \in DOMAIN params |->
                 IF params[i].name = match.group1 THEN entry ELSE params[i]]
        ELSE Append(params, entry)

\* ParseStep without the skip of the preset parameters.
ParseStep_NoPreset(params, match) ==
    LET param_type == IF match.group2 = None THEN W_text ELSE match.group2.s
        eff_type == IF param_type \notin SUPPORTED_TYPES THEN W_text ELSE param_type
    IN  IF match.group1 \in ParamNames(params) THEN params
        ELSE Append(params,
                    [ name |-> match.group1, type |-> eff_type,
                      default |-> parse_default_value(eff_type, match.group3),
                      label |-> match.group1 ])

\* ParseStep that skips a placeholder whose type is not supported.
ParseStep_SkipsUnknownType(params, match) ==
    LET param_type == IF match.group2 = None THEN W_text ELSE match.group2.s
    IN  IF match.group1 \in PRESET_PARAMS THEN params
        ELSE IF match.group1 \in ParamNames(params) THEN params
        ELSE IF param_type \notin SUPPORTED_TYPES THEN params
        ELSE Append(params,
                    [ name |-> match.group1, type |-> param_type,
                      default |-> parse_default_value(param_type, match.group3),
                      label |-> match.group1 ])

\* The body of the loop of parse_template_parameters for one match.
ParseStep(params, match) ==
    LET param_name == match.group1
        param_type == IF match.group2 = None THEN W_text ELSE match.group2.s
        default_value == match.group3
        eff_type == IF param_type \notin SUPPORTED_TYPES THEN W_text ELSE param_type
    IN  IF param_name \in PRESET_PARAMS THEN params
        ELSE IF param_name \in ParamNames(params) THEN params
        ELSE Append(params,
                    [ name |-> param_name,
                      type |-> eff_type,
                      default |-> parse_default_value(eff_type, default_value),
                      label |-> param_name ])

\* re.finditer: the leftmost match at or after pos, then on from its end.
RECURSIVE ParseFrom(_, _, _)
ParseFrom(s, pos, params) ==
    IF pos > Len(s) THEN params
    ELSE LET m == PatternMatchAt(s, pos)
         IN  IF m.matched THEN ParseFrom(s, m.end + 1, ParseStep(params, m))
             ELSE ParseFrom(s, pos + 1, params)

\* parse_template_parameters() on a template text
parse_template_parameters(tpl) == ParseFrom(tpl, 1, << >>)

\* ------------------------------------------------------ the substitution

\* ValueToHtml with str(value) for a bool ("True", "False").
ValueToHtml_PyBool(value) ==
    CASE value.t = "bool" -> IF value.b THEN << "T","r","u","e" >> ELSE << "F","a","l","s","e" >>
      [] value.t = "none" -> << >>
      [] value.t = "str" -> value.s
      [] value.t = "int" -> value.dec
      [] value.t = "float" -> value.repr

\* The conversion of a context value in replacer: a bool becomes the word
\* true or false, None the empty string, anything else str(value) (the
\* contexts of the model hold str and int values).
ValueToHtml(value) ==
    CASE value.t = "bool" -> IF value.b THEN W_true ELSE W_false
      [] value.t = "none" -> << >>
      [] value.t = "str" -> value.s
      [] value.t = "int" -> value.dec
      [] value.t = "float" -> value.repr

\* replacer with the inline default tried before the context value.
replacer_DefaultFirst(match, values) ==
    IF match.group3 # None THEN match.group3.s
    ELSE IF match.group1 \in DOMAIN values THEN ValueToHtml(values[match.group1])
    ELSE << >>

\* replacer that looks the value up with values.get(param_name): a None
\* value counts as no value.
replacer_NoneIsAbsent(match, values) ==
    IF match.group1 \in DOMAIN values /\ values[match.group1] # None
    THEN ValueToHtml(values[match.group1])
    ELSE IF match.group3 # None /\ match.group3.s # << >> THEN match.group3.s
    ELSE << >>

\* replacer(match) of _replace_parameters
replacer(match, values) ==
    LET param_name == match.group1
        default_value_str == match.group3
    IN  IF param_name \in DOMAIN values THEN ValueToHtml(values[param_name])
        ELSE IF default_value_str # None /\ default_value_str.s # << >>
        THEN default_value_str.s
        ELSE << >>

\* re.sub with count=1: only the first match is replaced.
SubFrom_FirstOnly(s, pos, values) ==
    IF pos > Len(s) THEN << >>
    ELSE LET first == CHOOSE i \in pos..(Len(s) + 1) :
                          /\ i <= Len(s) => PatternMatchAt(s, i).matched
                          /\ \A j \in pos..(i - 1) : ~PatternMatchAt(s, j).matched
         IN  IF first > Len(s) THEN SubSeq(s, pos, Len(s))
             ELSE SubSeq(s, pos, first - 1)
                  \o replacer(PatternMatchAt(s, first), values)
                  \o SubSeq(s, PatternMatchAt(s, first).end + 1, Len(s))

\* re.sub with re.IGNORECASE: the pattern is tried on the text in lower case.
RECURSIVE SubFrom_IgnoreCase(_, _, _)
SubFrom_IgnoreCase(s, pos, values) ==
    IF pos > Len(s) THEN << >>
    ELSE LET m == PatternMatchAt(LowerStr(s), pos)
         IN  IF m.matched THEN replacer(m, values) \o SubFrom_IgnoreCase(s, m.end + 1, values)
             ELSE << s[pos] >> \o SubFrom_IgnoreCase(s, pos + 1, values)

\* re.sub: every leftmost non-overlapping match is replaced in one pass,
\* the text between matches is copied.
RECURSIVE SubFrom(_, _, _)
SubFrom(s, pos, values) ==
    IF pos > Len(s) THEN << >>
    ELSE LET m == PatternMatchAt(s, pos)
         IN  IF m.matched THEN replacer(m, values) \o SubFrom(s, m.end + 1, values)
             ELSE << s[pos] >> \o SubFrom(s, pos + 1, values)

\* _replace_parameters that substitutes its own output once more.
replace_parameters_Twice(html_in, values) == SubFrom(SubFrom(html_in, 1, values), 1, values)

\* _replace_parameters(html, values)
replace_parameters(html_in, values) == SubFrom(html_in, 1, values)

\* --------------------------------------------------------------- the inputs

\* Bounds of the model.
MaxSegs == 2

\* A template is written as a sequence of segments: literal text, or a
\* placeholder {{name}}, {{name=default}}, {{name:type}}, {{name:type=default}}
\* (the syntax of the docstring of parse_template_parameters).
Lit(text) == [kind |-> "lit", text |-> text]
Ph(name, type, default) ==
    [kind |-> "ph", name |-> name, type |-> type, default |-> default]

SegText(seg) ==
    IF seg.kind = "lit" THEN seg.text
    ELSE << "{", "{" >> \o seg.name
         \o (IF seg.type = None THEN << >> ELSE << ":" >> \o seg.type.s)
         \o (IF seg.default = None THEN << >> ELSE << "=" >> \o seg.default.s)
         \o << "}", "}" >>

RECURSIVE Flatten(_)
Flatten(segs) ==
    IF segs = << >> THEN << >> ELSE SegText(Head(segs)) \o Flatten(Tail(segs))

N_x == << "x" >>
N_c == << "c" >>
N_flag == << "f","l","a","g" >>
T_ff0000 == << "f","f","0","0","0","0" >>

P_x == Ph(N_x, None, None)
P_x_number == Ph(N_x, StrV(W_number), StrV(T_35))
P_x_color == Ph(N_x, StrV(W_color), StrV(<< "#","0","f","0" >>))
P_color == Ph(W_color, None, StrV(T_ff0000))
P_c_color == Ph(N_c, StrV(W_color), StrV(T_ff0000))
P_flag == Ph(N_flag, StrV(W_bool), None)
P_flag_yes == Ph(N_flag, StrV(W_bool), StrV(<< "Y","e","s" >>))
P_title == Ph(W_title, StrV(W_number), StrV(<< "7" >>))
P_text == Ph(W_text, None, None)
P_image == Ph(W_image, None, StrV(<< "n","o" >>))
P_y_unknown == Ph(<< "y" >>, StrV(<< "f","o","o" >>), StrV(<< "1" >>))
P_n_bad == Ph(<< "n" >>, StrV(W_number), StrV(<< "1","x" >>))

Placeholders ==
    { P_x, P_x_number, P_x_color, P_color, P_c_color, P_flag, P_flag_yes,
      P_title, P_text, P_image, P_y_unknown, P_n_bad }

\* Text that is no placeholder: plain text, a lone brace, and tokens the
\* pattern does not match (an empty default, an uppercase type).
Literals ==
    { Lit(<< "<" >>), Lit(<< "}" >>),
      Lit(<< "{","{","x","=","}","}" >>),
      Lit(<< "{","{","x",":","N","u","m","b","e","r","}","}" >>) }

SegmentSet == Placeholders \cup Literals

SegSeqs == UNION { [1..n -> SegmentSet] : n \in 0..MaxSegs }

TemplateSet == { Flatten(segs) : segs \in SegSeqs }

\* The ways a text is written as a sequence of segments.
RECURSIVE Segmentations(_)
Segmentations(txt) ==
    IF txt = << >> THEN { << >> }
    ELSE UNION { { << seg >> \o rest :
                     rest \in Segmentations(SubSeq(txt, Len(SegText(seg)) + 1, Len(txt))) } :
                 seg \in { g \in SegmentSet :
                             /\ Len(SegText(g)) <= Len(txt)
                             /\ SubSeq(txt, 1, Len(SegText(g))) = SegText(g) } }

\* Variable contexts handed to _replace_parameters.
ContextSet ==
    { << >>,
      [k \in {N_x} |-> StrV(<< "v" >>)],
      [k \in {N_x} |-> None],
      [k \in {N_x} |-> IntV(12)],
      [k \in {N_flag} |-> BoolV(TRUE)],
      [k \in {N_flag} |-> BoolV(FALSE)],
      [k \in {W_title, W_text, W_image} |->
          IF k = W_title THEN StrV(<< "T" >>)
          ELSE IF k = W_text THEN StrV(<< "W" >>) ELSE None],
      [k \in {W_color, N_c} |-> StrV(<< "r","e","d" >>)] }

\* Templates with tokens that are close to a placeholder without being one
\* (an empty default, an uppercase type, spaces inside the braces, a closing
\* pair of braces alone), between placeholders.
L_empty_default == Lit(<< "{","{","x","=","}","}" >>)
L_upper_type == Lit(<< "{","{","x",":","N","u","m","b","e","r","}","}" >>)
L_spaces == Lit(<< "{","{"," ","x"," ","}","}" >>)
L_closing == Lit(<< "x","}","}" >>)
TokenSegments ==
    { P_x, P_x_number, P_c_color, P_title,
      L_empty_default, L_upper_type, L_spaces, L_closing, Lit(<< "<" >>) }
TokenTemplates ==
    { Flatten(segs) : segs \in UNION { [1..n -> TokenSegments] : n \in 0..MaxSegs } }

\* Contexts whose values hold placeholder syntax themselves: a whole
\* placeholder, the placeholder of the value's own name, an opening pair of
\* braces; and contexts without.
TokenContextSet ==
    { << >>,
      [k \in {N_x} |-> StrV(<< "v" >>)],
      [k \in {N_x} |-> StrV(SegText(P_c_color))],
      [k \in {N_x} |-> StrV(SegText(P_x))],
      [k \in {N_x} |-> StrV(<< "{","{" >>)],
      [k \in {N_c} |-> StrV(SegText(P_x_number))] }

\* ------------------------------------------------------- paths and files

\* str.startswith(prefix)
StartsWith(s, prefix) ==
    Len(prefix) <= Len(s) /\ SubSeq(s, 1, Len(prefix)) = prefix

\* needle in s (substring test)
HasSubstring(s, needle) ==
    \E i \in 1..(Len(s) - Len(needle) + 1) :
        SubSeq(s, i, i + Len(needle) - 1) = needle

\* The index of the last "/" of a path, 0 when it has none.
LastSlash(path) ==
    IF \E i \in DOMAIN path : path[i] = "/"
    THEN CHOOSE i \in DOMAIN path :
            path[i] = "/" /\ \A j \in (i + 1)..Len(path) : path[j] # "/"
    ELSE 0

\* The number of "/" a text starts with.
LeadingSlashes(s) == RunEnd(s, 1, {"/"}) - 1

\* s.rstrip("/")
RStripSlash(s) ==
    SubSeq(s, 1, CHOOSE n \in 0..Len(s) :
                    (n = 0 \/ s[n] # "/") /\ \A k \in (n + 1)..Len(s) : s[k] = "/")

\* os.path.dirname: the text up to the last "/", without the slashes it
\* ends with unless it is made of slashes only; empty when the path has no
\* "/".
Dirname(path) ==
    LET head == SubSeq(path, 1, LastSlash(path))
    IN  IF head # << >> /\ LeadingSlashes(head) < Len(head) THEN RStripSlash(head) ELSE head

\* os.path.basename: the text after the last "/".
Basename(path) == SubSeq(path, LastSlash(path) + 1, Len(path))

\* os.path.isabs and Path.is_absolute
IsAbsolute(path) == path # << >> /\ path[1] = "/"

\* os.path.join(a, b)
Join(a, b) ==
    IF IsAbsolute(b) THEN b
    ELSE IF a = << >> \/ a[Len(a)] = "/" THEN a \o b
    ELSE a \o << "/" >> \o b

\* path.split("/")
RECURSIVE SplitSlash(_)
SplitSlash(path) ==
    LET i == RunEndNot(path, 1, "/")
    IN  IF i > Len(path) THEN << path >>
        ELSE << SubSeq(path, 1, i - 1) >> \o SplitSlash(SubSeq(path, i + 1, Len(path)))

\* "/".join(parts)
RECURSIVE JoinSlash(_)
JoinSlash(parts) ==
    IF parts = << >> THEN << >>
    ELSE IF Len(parts) = 1 THEN parts[1]
    ELSE parts[1] \o << "/" >> \o JoinSlash(Tail(parts))

\* str(Path(path)) of pathlib on a POSIX host: empty and "." components and
\* repeated or trailing slashes go, ".." stays; a path that starts with
\* exactly two slashes keeps them; the empty path is ".".
PathStr(path) ==
    LET root == IF LeadingSlashes(path) = 0 THEN << >>
                ELSE IF LeadingSlashes(path) = 2 THEN << "/","/" >>
                ELSE << "/" >>
        parts == SelectSeq(SplitSlash(path), LAMBDA c : c # << >> /\ c # << "." >>)
    IN  IF root = << >> /\ parts = << >> THEN << "." >>
        ELSE root \o JoinSlash(parts)

\* os.getcwd() and Path.cwd(): the process's working directory.
Cwd == << "/","w" >>

\* A directory of the file system and a name in it.
Child(dir, name) == IF dir = << "/" >> THEN dir \o name ELSE dir \o << "/" >> \o name
\* The directory above a directory of the file system.
Parent(dir) ==
    IF LastSlash(dir) <= 1 THEN << "/" >> ELSE SubSeq(dir, 1, LastSlash(dir) - 1)

\* A directory and the directories above it.
RECURSIVE Ancestors(_)
Ancestors(dir) ==
    IF dir = << >> \/ dir = << "/" >> THEN { << "/" >> }
    ELSE { dir } \cup Ancestors(Parent(dir))

\* The bytes of the UTF-8 encoding of a text (os.fsencode), half by half.
RECURSIVE Utf8(_)
Utf8(s) ==
    IF s = << >> THEN << >>
    ELSE IF Len(s) = 1
    THEN (IF Ord(s[1]) < 128 THEN << Ord(s[1]) >>
          ELSE << 192 + (Ord(s[1]) \div 64), 128 + (Ord(s[1]) % 64) >>)
    ELSE Utf8(SubSeq(s, 1, Len(s) \div 2)) \o Utf8(SubSeq(s, (Len(s) \div 2) + 1, Len(s)))

\* The longest file name of the host, and the longest path with the byte
\* that ends it, in bytes; a text is too long for a limit when its encoding
\* has more bytes (a character of the table has one or two).
NAME_MAX == 255
PATH_MAX == 4096
TooLong(s, max) ==
    2 * Len(s) > max /\ Len(s) + Cardinality({ i \in DOMAIN s : Ord(s[i]) >= 128 }) > max

\* A file system without symbolic links is a set ds of directories and a
\* function fs from the files to their contents, both under their one
\* absolute name.  The error of a system call is the type of the OSError
\* that Python raises for it; ENAMETOOLONG, EINVAL, EBUSY and ENOTEMPTY
\* have no class of their own.
Raises(type) == [ok |-> FALSE, err |-> type]

\* The directory that the components comps lead to from directory cur.
RECURSIVE Walk(_, _, _, _)
Walk(cur, comps, ds, fs) ==
    IF comps = << >> THEN [ok |-> TRUE, path |-> cur]
    ELSE LET c == Head(comps)
         IN  IF c = << >> \/ c = << "." >> THEN Walk(cur, Tail(comps), ds, fs)
             ELSE IF c = << ".","." >> THEN Walk(Parent(cur), Tail(comps), ds, fs)
             ELSE IF TooLong(c, NAME_MAX) THEN Raises("OSError")
             ELSE IF Child(cur, c) \in ds THEN Walk(Child(cur, c), Tail(comps), ds, fs)
             ELSE IF Child(cur, c) \in DOMAIN fs THEN Raises("NotADirectoryError")
             ELSE Raises("FileNotFoundError")

\* Path resolution of the operating system, as far as the last component:
\* the directory the path leads to, the last name, its type, and whether
\* slashes follow it.  A relative path starts at the working directory.
ParentLast(path, ds, fs) ==
    LET Split(body, comps) ==
            LET last == comps[Len(comps)]
                Reached(dir) ==
                    IF ~dir.ok THEN dir
                    ELSE [ok |-> TRUE, dir |-> dir.path, name |-> last,
                          type |-> IF last = << "." >> THEN "dot"
                                   ELSE IF last = << ".","." >> THEN "dotdot" ELSE "norm",
                          slash |-> body # path]
            IN  IF body = << >>
                THEN [ok |-> TRUE, dir |-> << "/" >>, name |-> << >>, type |-> "root",
                      slash |-> FALSE]
                ELSE Reached(Walk(IF IsAbsolute(path) THEN << "/" >> ELSE Cwd,
                                  SubSeq(comps, 1, Len(comps) - 1), ds, fs))
    IN  IF path = << >> THEN Raises("FileNotFoundError")
        ELSE IF TooLong(path, PATH_MAX - 1) THEN Raises("OSError")
        ELSE IF ~IsAbsolute(path) /\ Cwd \notin ds THEN Raises("FileNotFoundError")
        ELSE Split(RStripSlash(path), SplitSlash(RStripSlash(path)))

\* What a path names to a call that may create it: the absolute name, and
\* whether that is a directory, a file, or nothing yet.
Target(path, ds, fs) ==
    LET Named(pl) ==
            LET c == Child(pl.dir, pl.name)
                at(p, k) == [ok |-> TRUE, path |-> p, kind |-> k,
                             slash |-> pl.slash, type |-> pl.type]
            IN  IF ~pl.ok THEN pl
                ELSE IF pl.type = "root" THEN at(<< "/" >>, "dir")
                ELSE IF pl.type = "dot" THEN at(pl.dir, "dir")
                ELSE IF pl.type = "dotdot" THEN at(Parent(pl.dir), "dir")
                ELSE IF TooLong(pl.name, NAME_MAX) THEN Raises("OSError")
                ELSE at(c, IF c \in ds THEN "dir"
                           ELSE IF c \in DOMAIN fs THEN "file" ELSE "none")
    IN  Named(ParentLast(path, ds, fs))

\* os.stat(path): the file or directory a path names.
Stat(path, ds, fs) ==
    LET Of(t) ==
            IF ~t.ok THEN t
            ELSE IF t.kind = "none" THEN Raises("FileNotFoundError")
            ELSE IF t.kind = "file" /\ t.slash THEN Raises("NotADirectoryError")
            ELSE t
    IN  Of(Target(path, ds, fs))

\* os.path.exists, and Path.exists but for the errors it passes on
Exists(path, ds, fs) == Stat(path, ds, fs).ok
\* os.path.isdir
IsDir(path, ds, fs) ==
    LET Of(st) == st.ok /\ st.kind = "dir" IN Of(Stat(path, ds, fs))

\* os.path.abspath: the working directory before a relative path, then
\* empty components, "." and ".." resolved in the text; two slashes at the
\* start stay.
RECURSIVE Collapse(_, _)
Collapse(done, comps) ==
    IF comps = << >> THEN done
    ELSE IF Head(comps) = << >> \/ Head(comps) = << "." >> THEN Collapse(done, Tail(comps))
    ELSE IF Head(comps) = << ".","." >>
    THEN Collapse(SubSeq(done, 1, Len(done) - 1), Tail(comps))
    ELSE Collapse(Append(done, Head(comps)), Tail(comps))
AbsPath(path) ==
    LET joined == IF IsAbsolute(path) THEN path ELSE Join(Cwd, path)
    IN  (IF LeadingSlashes(joined) = 2 THEN << "/","/" >> ELSE << "/" >>)
            \o JoinSlash(Collapse(<< >>, SplitSlash(joined)))

\* The absolute name of the file that a path names when the directories on
\* the way exist.
Resolve(path) ==
    IF LeadingSlashes(AbsPath(path)) = 2 THEN Tail(AbsPath(path)) ELSE AbsPath(path)

\* A function with one more (or one replaced) entry.
Put(f, k, v) == [x \in DOMAIN f \cup {k} |-> IF x = k THEN v ELSE f[x]]
\* A function without one entry.
Drop(f, k) == [x \in DOMAIN f \ {k} |-> f[x]]

\* The outcome of a call that changes the file system: the directories and
\* files after it, and the exception when it raises one.
Done(ds, fs) == [ok |-> TRUE, dirs |-> ds, files |-> fs]
Failed(type, ds, fs) == [ok |-> FALSE, err |-> type, dirs |-> ds, files |-> fs]

\* os.mkdir(path)
Mkdir(path, ds, fs) ==
    LET At(t) ==
            IF ~t.ok THEN Failed(t.err, ds, fs)
            ELSE IF t.kind # "none" THEN Failed("FileExistsError", ds, fs)
            ELSE Done(ds \cup { t.path }, fs)
    IN  At(Target(path, ds, fs))

\* os.makedirs(name, exist_ok=exist_ok): the directories above are made
\* first (a FileExistsError of that is passed over), then the directory
\* itself; with exist_ok an OSError of mkdir is passed over when the name is
\* a directory.
RECURSIVE MakeDirs(_, _, _, _)
MakeDirs(name, exist_ok, ds, fs) ==
    LET Leaf(climbs, tail, above) ==
            LET Made(made) ==
                    IF ~made.ok /\ exist_ok /\ IsDir(name, above.dirs, fs)
                    THEN Done(above.dirs, fs)
                    ELSE made
            IN  IF ~above.ok /\ above.err # "FileExistsError" THEN above
                ELSE IF climbs /\ tail = << "." >> THEN Done(above.dirs, fs)
                ELSE Made(Mkdir(name, above.dirs, fs))
        Climb(climbs, head, tail) ==
            Leaf(climbs, tail,
                 IF climbs THEN MakeDirs(head, exist_ok, ds, fs) ELSE Done(ds, fs))
        Split(head, tail) ==
            Climb(head # << >> /\ tail # << >> /\ ~Exists(head, ds, fs), head, tail)
        Parts(head0, tail0) ==
            Split(IF tail0 = << >> THEN Dirname(head0) ELSE head0,
                  IF tail0 = << >> THEN Basename(head0) ELSE tail0)
    IN  Parts(Dirname(name), Basename(name))

\* A path at or below a directory, and its name when the directory from is
\* renamed to.
Below(p, dir) == p = dir \/ StartsWith(p, Child(dir, << >>))
Moved(p, from, to) == IF Below(p, from) THEN to \o SubSeq(p, Len(from) + 1, Len(p)) ELSE p

\* os.rename(src, dst) on one file system: a file replaces a file; a
\* directory goes with everything below it, to a name that is free or an
\* empty directory, and not below itself.
Rename(src, dst, ds, fs) ==
    LET Of(po, pn, o, n) ==
            IF ~po.ok THEN Failed(po.err, ds, fs)
            ELSE IF ~pn.ok THEN Failed(pn.err, ds, fs)
            ELSE IF po.type # "norm" \/ pn.type # "norm" THEN Failed("OSError", ds, fs)
            ELSE IF ~o.ok THEN Failed(o.err, ds, fs)
            ELSE IF o.kind = "none" THEN Failed("FileNotFoundError", ds, fs)
            ELSE IF ~n.ok THEN Failed(n.err, ds, fs)
            ELSE IF o.kind = "file" /\ (o.slash \/ n.slash)
            THEN Failed("NotADirectoryError", ds, fs)
            ELSE IF /\ o.path # n.path
                    /\ (Below(Parent(n.path), o.path) \/ Below(Parent(o.path), n.path))
            THEN Failed("OSError", ds, fs)
            ELSE IF o.path = n.path THEN Done(ds, fs)
            ELSE IF o.kind = "file"
            THEN IF n.kind = "dir" THEN Failed("IsADirectoryError", ds, fs)
                 ELSE Done(ds, Put(Drop(fs, o.path), n.path, fs[o.path]))
            ELSE IF n.kind = "file" THEN Failed("NotADirectoryError", ds, fs)
            ELSE IF n.kind = "dir" /\ \E p \in ds \cup DOMAIN fs : p # n.path /\ Below(p, n.path)
            THEN Failed("OSError", ds, fs)
            ELSE Done({ Moved(p, o.path, n.path) : p \in ds },
                      [p \in { Moved(f, o.path, n.path) : f \in DOMAIN fs } |->
                          IF Below(p, n.path) THEN fs[Moved(p, n.path, o.path)] ELSE fs[p]])
    IN  Of(ParentLast(src, ds, fs), ParentLast(dst, ds, fs),
           Target(src, ds, fs), Target(dst, ds, fs))

\* The frames of the interpreter's stack (sys.getrecursionlimit()).
RECURSION_LIMIT == 1000

\* A file that has been opened for writing and not written.
EmptyFile == [t |-> "empty"]

\* The number of listings of a copy of a directory into itself up to which
\* SelfCopy gives the outcomes one by one; above it, the same set is given
\* by the test of its members.
MaxListed == 1000

\* shutil.copytree(src, real_dst) where real_dst, the directory n, has been
\* made in a directory below the source directory o that was there before:
\* the copy of o lists the directory that leads to n and copies it, copy
\* included.  Level m of the copy lists the directory m names below o,
\* along the names from o to n over and over, makes the directory m names
\* below n and copies into it the entries that os.scandir has listed before
\* the name that leads on; the entries listed after that name wait for a
\* return.  os.scandir lists in any order: the directory that level m
\* lists, when it is a copy, is the one that level m - k has made (k names
\* lead from o to n), with the entries copied there so far, which are the
\* ones that level m - k has listed before the name that leads on, and any
\* of them comes before that name now.  A listing is the number c[e] of
\* levels, from the first that lists the entry e of o, at which e is listed
\* before the name that leads on.  Each level takes two frames of the stack
\* (copytree and _copytree), and a path grows with each: the RecursionError
\* ends the copy where it is, at any level M below the limit (the frames
\* below the call are the caller's), and keeps what is written: of the
\* entries of level M and of every directory below them any number copied
\* and one more begun, a file opened and not written.  When the path limit
\* comes first, the level that cannot make its directory raises an OSError
\* to the level above, which goes on with the entries listed after the
\* name that leads on, and the copy ends with an Error of all that failed;
\* what does not fit the path limit is not written.
SelfCopy(o, n, src, real_dst, ds, fs, made) ==
    LET Q == SubSeq(n, Len(o) + 1, Len(n))
        k == Len(SelectSeq(Q, LAMBDA c : c = "/"))
        SlashAt == SelectSeq([i \in 1..Len(Q) |-> i], LAMBDA i : Q[i] = "/")
        Names(j) == IF j = k THEN Len(Q) ELSE SlashAt[j + 1] - 1
        RECURSIVE Times(_, _)
        Times(q, t) ==
            IF t = 0 THEN << >>
            ELSE IF t % 2 = 0 THEN Times(q \o q, t \div 2)
            ELSE q \o Times(q \o q, t \div 2)
        Spine(m) == Times(Q, m \div k) \o SubSeq(Q, 1, Names(m % k))
        There(j) == j <= k /\ (o \o Spine(j)) \in ds
        Under(base, rel) == IF rel = << >> THEN base ELSE Join(base, Tail(rel))
        Fits(rel) ==
            /\ ~TooLong(Under(real_dst, rel), PATH_MAX - 1)
            /\ ~TooLong(Under(src, rel), PATH_MAX - 1)
        MaxDepth == RECURSION_LIMIT \div 2
        Far == k * ((PATH_MAX \div Len(Q)) + 1)
        Stop(deep) == IF deep = {} THEN MaxDepth + 1 ELSE CHOOSE m \in deep : \A l \in deep : m <= l
        \* the entries of the directory j names below o, but the name that leads on
        Tops(j) ==
            IF There(j)
            THEN { p \in ds \cup DOMAIN fs : Parent(p) = o \o Spine(j) /\ p # o \o Spine(j + 1) }
            ELSE {}
        Entries == UNION { Tops(j) : j \in 0..(k - 1) }
        First(e) == CHOOSE j \in 0..(k - 1) : e \in Tops(j)
        Sub(S) == { p \in ds \cup DOMAIN fs : \E e \in S : Below(p, e) }
        Kids(d) == { p \in ds \cup DOMAIN fs : Parent(p) = d }
        \* the levels below M that list the directory j names below o
        Rounds(M, j) == IF M <= j THEN 0 ELSE (M - j + k - 1) \div k
        Ahead(c, m) == { e \in Tops(m % k) : m \div k < c[e] }
        Listed(c, m) == { e \in Tops(m % k) : m \div k <= c[e] }
        \* the name below n that level m gives the path p of o, and back
        Rel(m, p) == Spine(m) \o SubSeq(p, Len(o) + Len(Spine(m % k)) + 1, Len(p))
        Source(m, q) == o \o Spine(m % k) \o SubSeq(q, Len(n) + Len(Spine(m)) + 1, Len(q))
        \* what level m leaves of the paths P, the files of cut opened only
        Copy(m, P, cut) ==
            [dirs |-> { n \o Rel(m, p) : p \in { x \in P \cap ds : Fits(Rel(m, x)) } },
             files |-> [q \in { n \o Rel(m, p) :
                                  p \in { x \in P \cap DOMAIN fs : Fits(Rel(m, x)) } } |->
                           IF Source(m, q) \in cut THEN EmptyFile ELSE fs[Source(m, q)]]]
        Both(a, b) == [dirs |-> a.dirs \cup b.dirs, files |-> a.files @@ b.files]
        Level(m, c, all) ==
            Both([dirs |-> { n \o Spine(m) }, files |-> << >>],
                 Copy(m, Sub(IF all THEN Listed(c, m) ELSE Ahead(c, m)), {}))
        RECURSIVE Levels(_, _, _, _)
        Levels(lo, hi, c, all) ==
            IF hi < lo THEN [dirs |-> made.dirs, files |-> made.files]
            ELSE IF lo = hi THEN Level(lo, c, all)
            ELSE Both(Levels(lo, (lo + hi) \div 2, c, all),
                      Levels(((lo + hi) \div 2) + 1, hi, c, all))
        Kept(type, written) ==
            Failed(type, made.dirs \cup written.dirs, made.files @@ written.files)
        \* what a copy of the entries kids that has not ended has copied
        RECURSIVE Within(_)
        RECURSIVE Begun(_)
        Within(kids) ==
            UNION { { [paths |-> Sub(S) \cup part.paths, cut |-> part.cut] :
                        part \in { [paths |-> {}, cut |-> {}] }
                                    \cup UNION { Begun(a) : a \in kids \ S } } :
                    S \in SUBSET kids }
        Begun(a) ==
            IF a \in DOMAIN fs THEN { [paths |-> { a }, cut |-> { a }] }
            ELSE { [paths |-> { a } \cup w.paths, cut |-> w.cut] : w \in Within(Kids(a)) }
        \* the copy ends with a RecursionError at level M
        EndedAt(M, c, before) ==
            { Kept("RecursionError", Both(before, Copy(M, w.paths, w.cut))) :
                w \in Within(Listed(c, M)) }
        Ended(M, c) ==
            EndedAt(M, c, Both(Levels(0, M - 1, c, FALSE),
                               [dirs |-> { n \o Spine(M) }, files |-> << >>]))
        \* the copy ends with an Error, stop the first level that does not fit
        Errors(stop, c) == Kept("Error", Levels(0, stop - 1, c, TRUE))
        Most(stop, e) ==
            IF Rounds(stop, First(e)) = 0 THEN 0 ELSE Rounds(stop, First(e)) - 1
        \* the listings
        EndedWith(M) ==
            { c \in [Entries -> 0..Rounds(M, 0)] : \A e \in Entries : c[e] <= Rounds(M, First(e)) }
        ErrorsWith(stop) ==
            { c \in [Entries -> 0..Rounds(stop, 0)] : \A e \in Entries : c[e] <= Most(stop, e) }
        Each(stop) ==
            UNION { UNION { Ended(M, c) : c \in EndedWith(M) } : M \in 0..(stop - 1) }
            \cup (IF stop > MaxDepth THEN {} ELSE { Errors(stop, c) : c \in ErrorsWith(stop) })
        \* their number, counted up to MaxListed
        Cap(x) == IF x > MaxListed THEN MaxListed + 1 ELSE x
        RECURSIVE Power(_, _)
        Power(b, t) == IF t = 0 THEN 1 ELSE Cap(b * Power(b, t - 1))
        RECURSIVE With(_, _)
        With(M, j) ==
            IF j = k THEN 1
            ELSE Cap(Power(Cap(Rounds(M, j) + 1), Cardinality(Tops(j))) * With(M, j + 1))
        RECURSIVE From(_, _)
        From(lo, hi) ==
            IF lo = hi THEN With(lo, 0)
            ELSE Cap(From(lo, (lo + hi) \div 2) + From(((lo + hi) \div 2) + 1, hi))
        \* the listing that has left out
        Absent(out, m, e) ==
            /\ Fits(Rel(m, e))
            /\ (n \o Rel(m, e)) \notin out.dirs
            /\ (n \o Rel(m, e)) \notin DOMAIN out.files
        Least(S, R) == IF S = {} THEN R ELSE CHOOSE r \in S : \A s \in S : r <= s
        Scan(out, e, r, R) ==
            Least({ s \in r..(R - 1) : Absent(out, First(e) + k * s, e) }, R)
        Reached(out, stop) ==
            Cardinality({ m \in 1..(stop - 1) : (n \o Spine(m)) \in out.dirs })
        EndedOf(out, M) == [e \in Entries |-> Scan(out, e, 0, Rounds(M, First(e)))]
        ErrorsOf(out, stop) ==
            [e \in Entries |->
                IF Rounds(stop, First(e)) = 0 THEN 0
                ELSE Scan(out, e, 1, Rounds(stop, First(e))) - 1]
        LeftAt(out, M) == out \in Ended(M, EndedOf(out, M))
        Left(out, stop) ==
            IF out.err = "RecursionError" THEN LeftAt(out, Reached(out, stop))
            ELSE stop <= MaxDepth /\ out = Errors(stop, ErrorsOf(out, stop))
        All(stop) ==
            IF From(0, stop) <= MaxListed THEN Each(stop)
            ELSE { out \in [ok : { FALSE }, err : { "RecursionError", "Error" },
                            dirs : Any, files : Any] : Left(out, stop) }
    IN  All(Stop({ m \in 1..(IF Far < MaxDepth THEN Far ELSE MaxDepth) : ~Fits(Spine(m)) }))

\* shutil.move after os.rename(src, real_dst) has raised an OSError: what it
\* may leave.  A directory src is not moved into itself (_destinsrc compares
\* the absolute paths as texts); else it is copied with copytree, which
\* makes real_dst and the directories above it, and removed with rmtree,
\* whose last step, os.rmdir(src), raises when src ends with "." or "..".
\* A file src is copied with copy2, which raises what open(src) or
\* open(real_dst, "wb") raises, an IsADirectoryError of a name that does not
\* exist as FileNotFoundError.
MoveFallback(src, real_dst, dst, ds, fs) ==
    LET slashed(p) == IF p[Len(p)] = "/" THEN p ELSE p \o << "/" >>
        Tree(o, made) ==
            LET Inside(p) == p # o /\ Below(p, o)
                Removed(into) ==
                    LET Source(last) ==
                            IF ~last.ok THEN Failed(last.err, into.dirs, into.files)
                            ELSE IF last.type # "norm"
                            THEN Failed("OSError", into.dirs, into.files)
                            ELSE Done(into.dirs \ { o }, into.files)
                    IN  Source(ParentLast(src, into.dirs, into.files))
                Copied(n) ==
                    IF Below(n, o) /\ \E p \in ds : Inside(p) /\ Below(n, p)
                    THEN SelfCopy(o, n, src, real_dst, ds, fs, made)
                    ELSE IF Below(n, o)
                    THEN { Removed(Done({ p \in made.dirs : ~Inside(p) },
                                        [p \in { f \in DOMAIN fs : ~Inside(f) } |-> fs[p]])) }
                    ELSE { Removed(Done(
                            { IF Inside(p) THEN Moved(p, o, n) ELSE p : p \in made.dirs },
                            [p \in { IF Inside(f) THEN Moved(f, o, n) ELSE f : f \in DOMAIN fs } |->
                                IF Below(p, n) /\ p # n THEN fs[Moved(p, n, o)] ELSE fs[p]])) }
            IN  IF ~made.ok THEN { made }
                ELSE Copied(Stat(real_dst, made.dirs, made.files).path)
        File(from, to) ==
            IF ~from.ok THEN Failed(from.err, ds, fs)
            ELSE IF ~to.ok THEN Failed(to.err, ds, fs)
            ELSE IF to.slash THEN Failed("FileNotFoundError", ds, fs)
            ELSE Failed("OSError", ds, fs)
    IN  IF IsDir(src, ds, fs)
        THEN IF StartsWith(slashed(AbsPath(dst)), slashed(AbsPath(src)))
             THEN { Failed("Error", ds, fs) }
             ELSE Tree(Stat(src, ds, fs).path, MakeDirs(real_dst, FALSE, ds, fs))
        ELSE { File(Stat(src, ds, fs), ParentLast(real_dst, ds, fs)) }

\* shutil.move(src, dst) on one file system: into dst when dst is a directory
\* other than src (an Error when the name is taken there), else onto dst;
\* by os.rename, and when that raises by copying.  The value is the set of
\* the outcomes the call may have: one, but for a copy into the source.
MoveFile(src, dst, ds, fs) ==
    LET SameFile(s, d) == s.ok /\ s.path = d.path
        Onto(into, real_dst) ==
            LET Renamed(renamed) ==
                    IF renamed.ok \/ (IsDir(dst, ds, fs) /\ ~into) THEN { renamed }
                    ELSE MoveFallback(src, real_dst, dst, ds, fs)
            IN  IF into /\ Exists(real_dst, ds, fs) THEN { Failed("Error", ds, fs) }
                ELSE Renamed(Rename(src, real_dst, ds, fs))
        Into(into) == Onto(into, IF into THEN Join(dst, Basename(RStripSlash(src))) ELSE dst)
    IN  Into(IsDir(dst, ds, fs) /\ ~SameFile(Stat(src, ds, fs), Stat(dst, ds, fs)))

\* urllib.parse.quote_from_bytes(os.fsencode(path)): a byte that is not a
\* letter, a digit or one of _.-~/ becomes % and two hexadecimal digits.
RECURSIVE Quote(_)
Quote(bs) ==
    LET HEX == << "0","1","2","3","4","5","6","7","8","9","A","B","C","D","E","F" >>
        b == bs[1]
    IN  IF bs = << >> THEN << >>
        ELSE IF Len(bs) = 1
        THEN (IF b \in 48..57 \cup 65..90 \cup 97..122 \cup { 95, 46, 45, 126, 47 }
              THEN << CodePoints[b] >>
              ELSE << "%", HEX[(b \div 16) + 1], HEX[(b % 16) + 1] >>)
        ELSE Quote(SubSeq(bs, 1, Len(bs) \div 2)) \o Quote(SubSeq(bs, (Len(bs) \div 2) + 1, Len(bs)))

\* Path.as_uri() of an absolute path
AsUri(path) == << "f","i","l","e",":","/","/" >> \o Quote(Utf8(path))

\* The schemes of line 377.
URI_SCHEMES == { << "h","t","t","p",":","/","/" >>, << "h","t","t","p","s",":","/","/" >>, << "d","a","t","a",":" >>, << "f","i","l","e",":","/","/" >> }

\* ------------------------------------------------- the steps of a render

\* Truthiness of an Optional[str]: neither None nor empty.
Truthy(v) == v # None /\ v.s # << >>

\* NormalizeImage without the test of the URI schemes.
NormalizeImage_NoSchemeTest(image, ds, fs) ==
    IF Truthy(image)
    THEN LET image_path == PathStr(IF IsAbsolute(image.s) THEN image.s ELSE Join(Cwd, image.s))
         IN  IF ~Exists(image_path, ds, fs) THEN image
             ELSE StrV(AsUri(image_path))
    ELSE image

\* generate_frame, lines 376-390: the image argument as it enters the
\* context.  Path(image) and Path.cwd() / image are pathlib paths; a Path
\* that names an existing file or directory becomes its file: URI.
NormalizeImage(image, ds, fs) ==
    IF Truthy(image) /\ ~(\E scheme \in URI_SCHEMES : StartsWith(image.s, scheme))
    THEN LET image_path == PathStr(IF IsAbsolute(image.s) THEN image.s ELSE Join(Cwd, image.s))
         IN  IF ~Exists(image_path, ds, fs) THEN image
             ELSE StrV(AsUri(image_path))
    ELSE image

\* Line 385: Path.exists() passes on the OSError of a name that is too long.
NormalizeImageRaises(image, ds, fs) ==
    /\ Truthy(image) /\ ~(\E scheme \in URI_SCHEMES : StartsWith(image.s, scheme))
    /\ LET Of(st) == ~st.ok /\ st.err = "OSError"
       IN  Of(Stat(PathStr(IF IsAbsolute(image.s) THEN image.s ELSE Join(Cwd, image.s)),
                   ds, fs))

\* The context with the three arguments written over ext.
BuildContext_ArgumentsLast(title, text, image, ext) ==
    LET base == [k \in {W_title, W_text, W_image} |->
                    IF k = W_title THEN title ELSE IF k = W_text THEN text ELSE image]
    IN  IF ext # None /\ DOMAIN ext.d # {}
        THEN [k \in DOMAIN base \cup DOMAIN ext.d |->
                 IF k \in DOMAIN base THEN base[k] ELSE ext.d[k]]
        ELSE base

\* generate_frame, lines 392-402: the variable context; ext overrides.
BuildContext(title, text, image, ext) ==
    LET base == [k \in {W_title, W_text, W_image} |->
                    IF k = W_title THEN title ELSE IF k = W_text THEN text ELSE image]
    IN  IF ext # None /\ DOMAIN ext.d # {}
        THEN [k \in DOMAIN base \cup DOMAIN ext.d |->
                 IF k \in DOMAIN ext.d THEN ext.d[k] ELSE base[k]]
        ELSE base

\* The candidates of _find_chrome_executable, in their order.
Candidates ==
    << << "/","u","s","r","/","b","i","n","/","g","o","o","g","l","e","-","c","h","r","o","m","e" >>,
       << "/","u","s","r","/","b","i","n","/","g","o","o","g","l","e","-","c","h","r","o","m","e","-","s","t","a","b","l","e" >>,
       << "/","u","s","r","/","b","i","n","/","c","h","r","o","m","i","u","m" >>,
       << "/","u","s","r","/","b","i","n","/","c","h","r","o","m","i","u","m","-","b","r","o","w","s","e","r" >>,
       << "/","u","s","r","/","l","o","c","a","l","/","b","i","n","/","c","h","r","o","m","e" >>,
       << "/","u","s","r","/","l","o","c","a","l","/","b","i","n","/","c","h","r","o","m","i","u","m" >> >>

\* The test of a candidate without the look at its real path.
Acceptable_NoRealPath(h, i) == h.cand[i].exists /\ h.cand[i].executable

\* One candidate is acceptable: it exists, is executable, readlink -f
\* answers, and the real path has no /snap/ in it.
Acceptable(h, i) ==
    /\ h.cand[i].exists /\ h.cand[i].executable
    /\ h.cand[i].readlink # None
    /\ ~HasSubstring(h.cand[i].readlink.s, << "/","s","n","a","p","/" >>)

\* _find_chrome_executable() on host h: the first acceptable candidate, or None.
find_chrome_executable(h) ==
    IF h.os_name # "posix" THEN None
    ELSE IF \E i \in DOMAIN Candidates : Acceptable(h, i)
    THEN StrV(Candidates[CHOOSE i \in DOMAIN Candidates :
                  Acceptable(h, i) /\ \A j \in 1..(i - 1) : ~Acceptable(h, j)])
    ELSE None

\* Html2Image(**kwargs): with browser_executable given, the session uses it;
\* without, the library looks for a browser itself and raises when the host
\* has none.
Html2ImageRaises(h, browser_path) == browser_path = None /\ ~h.default_browser

Session(w, ht, browser_path) ==
    [t |-> "hti", size |-> << w, ht >>, browser_executable |-> browser_path]

\* ------------------------------------------------------- the configuration

\* A configuration as config.to_dict() gives it: sections of keys, some with
\* sections of their own; PixelleVideoConfig() is the default one.
Config(api_key, model) ==
    Dict([ llm |-> Dict([ api_key |-> StrV(api_key), model |-> StrV(model) ]),
           comfyui |-> Dict([ image |-> Dict([ default_workflow |-> StrV(<< "w" >>),
                                               prompt_prefix |-> StrV(<< >>) ]) ]) ])
DefaultConfig == Config(<< >>, << >>)

\* What a configuration file holds: a configuration, or text that
\* PixelleVideoConfig(**data) rejects.
Valid(config) == [valid |-> TRUE, config |-> config]
Invalid == [valid |-> FALSE]

CONFIG_YAML == << "c","o","n","f","i","g",".","y","a","m","l" >>
OTHER_YAML == << "o","t","h","e","r",".","y","a","m","l" >>
BAD_YAML == << "b","a","d",".","y","a","m","l" >>
ConfigPathSet == { CONFIG_YAML, OTHER_YAML, BAD_YAML }
InitialConfigFiles ==
    [p \in ConfigPathSet |->
        IF p = CONFIG_YAML THEN Valid(Config(<< "k" >>, << "a" >>))
        ELSE IF p = OTHER_YAML THEN Valid(Config(<< "k" >>, << "b" >>))
        ELSE Invalid]

\* ---------------------------------------------------------------- the state

VARIABLES
    generator,      \* the HTMLFrameGenerator object the caller holds: 0 when it holds none, else the object's serial number
    template_path,  \* self.template_path
    template,       \* self.template, the text loaded by _load_template
    width,          \* self.width
    height,         \* self.height
    hti,            \* self.hti: None, or the Html2Image session
    sessions,       \* the number of Html2Image objects this generator has created
    probes,         \* the number of times this generator has run _find_chrome_executable
    params,         \* the mapping last returned by parse_template_parameters
    parses,         \* the parse_template_parameters calls made on this generator: what each returned, after how many render calls
    subst,          \* the last call of _replace_parameters: its values and result
    host,           \* the host: os.name, the browser candidates, the library's own lookup
    dirs,           \* the directories of the file system
    files,          \* the files of the file system, path -> content
    call,           \* the generate_frame call in progress: arguments, locals, position
    ncalls,         \* the number of generate_frame calls started
    nctor,          \* the number of HTMLFrameGenerator(...) calls made
    ctor,           \* the last HTMLFrameGenerator(...) call: its argument and its outcome
    instance,       \* ConfigManager._instance: 0 for None, else the serial number of the object
    managers,       \* the ConfigManager objects made, serial number -> attributes
    cm_call,        \* the last ConfigManager(...) call: its number, its argument and its outcome
    config_files,   \* the configuration files, path -> content
    req,            \* the POST /frame/render request in progress, and its response
    peer            \* a second generate_frame call, of another caller, while it does not run: its call record, and its generator when it has its own

vars == << generator, template_path, template, width, height, hti, sessions, probes,
           params, parses, subst, host, dirs, files, call, ncalls, nctor, ctor,
           instance, managers, cm_call, config_files, req, peer >>

\* The state of the configuration manager and of the router.
cfgVars == << instance, managers, cm_call, config_files >>
outside == << cfgVars, req, peer >>

\* What a render call and a substitution leave alone: the caller's reference
\* to the object, the path it was constructed on, the constructor calls and
\* the parse calls made.
elsewhere == << generator, template_path, nctor, ctor, parses, outside >>

NotCalled == [done |-> FALSE]

\* No ConfigManager has been constructed; the configuration files are there.
NoManager ==
    /\ instance = 0
    /\ managers = << >>
    /\ cm_call = [n |-> 0]
    /\ config_files = InitialConfigFiles

\* No request has come in.
NoRequest == req = [pc |-> "none"]

\* One caller only.
NoPeer == peer = [t |-> "none"]

\* Bound: the number of parse_template_parameters calls made on a generator.
MaxParses == 2

\* ------------------------------------------------ the placeholder DSL alone

\* parse_template_parameters() on the generator
ParseTemplateParameters ==
    /\ generator # 0
    /\ Len(parses) < MaxParses
    /\ params' = [done |-> TRUE, value |-> parse_template_parameters(template)]
    /\ parses' = Append(parses, [value |-> parse_template_parameters(template), at |-> ncalls])
    /\ UNCHANGED << generator, template_path, nctor, ctor, sessions, probes, template, width, height,
                    hti, subst, host, dirs, files, call, ncalls, outside >>

\* _replace_parameters(self.template, values)
ReplaceParametersWith(values) ==
    /\ generator # 0
    /\ subst' = [done |-> TRUE, values |-> values,
                 html |-> replace_parameters(template, values)]
    /\ UNCHANGED << elsewhere, sessions, probes, template, width, height, hti, params, host, dirs, files, call, ncalls >>

ReplaceParameters == \E values \in ContextSet : ReplaceParametersWith(values)

\* _replace_parameters on the templates and contexts of TokenTemplates
ReplaceTokens == \E values \in TokenContextSet : ReplaceParametersWith(values)

\* --------------------------------------------------- the inputs of a render

\* Bound: the number of render calls made on the generator.
MaxCalls == 2

I_http == StrV(<< "h","t","t","p",":","/","/","h" >>)
I_https == StrV(<< "h","t","t","p","s",":","/","/","h" >>)
I_data == StrV(<< "d","a","t","a",":","x" >>)
I_file == StrV(<< "f","i","l","e",":","/","/","/","a" >>)
I_rel == StrV(<< "a","/","p",".","p","n","g" >>)
I_abs == StrV(<< "/","i","/","q",".","p","n","g" >>)
I_empty == StrV(<< >>)

ImageSet == { None, I_empty, I_http, I_https, I_data, I_file, I_rel, I_abs }

\* ext: None, or a dict
E_x == Dict([k \in {N_x} |-> StrV(<< "v" >>)])
E_image == Dict([k \in {W_image} |-> StrV(<< "e",".","p","n","g" >>)])
ExtSet == { None, E_x, E_image }

A_title == StrV(<< "T" >>)
A_text == StrV(<< "W" >>)

\* (title, text, image, ext): every image with a title and no ext, and every
\* title and ext with a local and a remote image.
ContentArgs ==
    { << A_title, A_text, image, None >> : image \in ImageSet }
    \cup { << title, A_text, image, ext >> :
              title \in { None, A_title }, image \in { I_rel, I_https }, ext \in ExtSet }

O_dir == StrV(<< "o","/","f",".","p","n","g" >>)
O_dir2 == StrV(<< "p","/","f",".","p","n","g" >>)
O_cwd == StrV(<< "/","w","/","f",".","p","n","g" >>)
O_bare == StrV(<< "f",".","p","n","g" >>)
OutputPathSet == { None, O_dir, O_dir2, O_cwd, O_bare }

\* uuid.uuid4().hex[:16], cut to one character
UuidSet == { << "a" >>, << "b" >> }

\* Template paths: the two of the specification's example (a size segment,
\* no size segment), one below a templates/ directory, one that names no
\* file, and one that names a directory.
TP_default == << "1","0","8","0","x","1","9","2","0","/","d","e","f","a","u","l","t",".","h","t","m","l" >>
TP_custom == << "c","u","s","t","o","m","_","n","a","m","e",".","h","t","m","l" >>
TP_wide == << "t","e","m","p","l","a","t","e","s","/","1","9","2","0","x","1","0","8","0","/","a",".","h","t","m","l" >>
TP_missing == << "1","9","2","0","x","1","0","8","0","/","g","o","n","e",".","h","t","m","l" >>
TP_dir == << "1","0","8","0","x","1","9","2","0" >>
\* A path whose one name is longer than a name of the host may be.
TP_long == [i \in 1..(NAME_MAX + 1) |-> "n"] \o << ".","h","t","m","l" >>
TemplatePathSet == { TP_default, TP_custom, TP_wide, TP_missing, TP_dir, TP_long }

\* Template keys of a render request: one with a size segment, one without,
\* one that names nothing, and the name of a directory of templates.
K_wide == << "1","9","2","0","x","1","0","8","0","/","a",".","h","t","m","l" >>
K_plain == << "p","l","a","i","n",".","h","t","m","l" >>
K_missing == << "1","9","2","0","x","1","0","8","0","/","g","o","n","e",".","h","t","m","l" >>
K_dir == << "1","9","2","0","x","1","0","8","0" >>
TemplateKeySet == { K_wide, K_plain, K_missing, K_dir }

\* The templates a generator is constructed on, each with the size
\* parse_template_size gives for its path.
RenderTemplates ==
    { [ path |-> TP_default, text |-> Flatten(<< P_title, P_text, P_image >>), size |-> << 1080, 1920 >> ],
      [ path |-> TP_wide, text |-> Flatten(<< P_image, P_x >>), size |-> << 1920, 1080 >> ] }

Absent == [exists |-> FALSE, executable |-> FALSE, readlink |-> None]
Installed(real_path) == [exists |-> TRUE, executable |-> TRUE, readlink |-> StrV(real_path)]
NotExecutable == [exists |-> TRUE, executable |-> FALSE, readlink |-> None]
ReadlinkFails == [exists |-> TRUE, executable |-> TRUE, readlink |-> None]
REAL_snap == << "/","s","n","a","p","/","c","h","r","o","m","i","u","m","/","1","/","c","h","r","o","m","e" >>
REAL_deb == << "/","o","p","t","/","c","h","r","o","m","e","/","c","h","r","o","m","e" >>

\* Hosts: not posix; posix without any browser; a snap first and a system
\* browser third; candidates that cannot be used and a browser the library
\* finds itself.
HostSet ==
    { [ os_name |-> "nt", default_browser |-> TRUE,
        cand |-> [i \in DOMAIN Candidates |-> Installed(REAL_deb)] ],
      [ os_name |-> "posix", default_browser |-> FALSE,
        cand |-> [i \in DOMAIN Candidates |-> Absent] ],
      [ os_name |-> "posix", default_browser |-> TRUE,
        cand |-> [i \in DOMAIN Candidates |->
                    IF i = 1 THEN Installed(REAL_snap)
                    ELSE IF i = 3 THEN Installed(REAL_deb) ELSE Absent] ],
      [ os_name |-> "posix", default_browser |-> TRUE,
        cand |-> [i \in DOMAIN Candidates |->
                    IF i = 1 THEN ReadlinkFails
                    ELSE IF i = 2 THEN NotExecutable
                    ELSE IF i = 4 THEN Installed(REAL_snap) ELSE Absent] ] }

ImageFile == [t |-> "image"]
Raster(n) == [t |-> "raster", call |-> n]

InitialDirs == { << "/" >>, Cwd, Join(Cwd, << "a" >>), << "/","i" >> }
\* The image files of the host: none, or the relative one, the absolute one,
\* a file of the working directory whose name looks like a data: URI, and
\* the file that the image of ext names.
InitialFilesSet ==
    { << >>,
      [f \in { Resolve(I_rel.s), Resolve(I_abs.s), Resolve(I_data.s),
                Resolve(E_image.d[W_image].s) } |-> ImageFile] }

\* The directories resolve_template_path looks into.
TEMPLATES_DIR == << "t","e","m","p","l","a","t","e","s" >>
DATA_TEMPLATES_DIR == << "d","a","t","a","/","t","e","m","p","l","a","t","e","s" >>

\* A template file and its text.
TemplateFile(text) == [t |-> "template", text |-> text]

\* The template files of the host and their directories.
TemplateFiles ==
    [f \in { Resolve(TP_default), Resolve(TP_custom), Resolve(TP_wide),
              Join(Join(Cwd, TEMPLATES_DIR), K_plain) } |->
        IF f = Resolve(TP_default) THEN TemplateFile(Flatten(<< P_title, P_text, P_image >>))
        ELSE IF f = Resolve(TP_custom) THEN TemplateFile(Flatten(<< P_x_number, P_flag >>))
        ELSE IF f = Resolve(TP_wide) THEN TemplateFile(Flatten(<< P_image, P_x >>))
        ELSE TemplateFile(Flatten(<< P_title, P_text >>))]
TemplateDirs == Ancestors(Dirname(Resolve(TP_default))) \cup Ancestors(Dirname(Resolve(TP_wide)))

\* ------------------------------------------------------------ generate_frame

\* A call of generate_frame: its position, its arguments and locals, the
\* number of times it has invoked the rasterizer (shots) and shutil.move
\* (moves), its result or exception.
Idle ==
    [ pc |-> "idle", n |-> 0,
      title |-> None, text |-> None, image |-> None, ext |-> None, output_path |-> None,
      img |-> None, context |-> << >>, html |-> << >>,
      out |-> None, output_filename |-> None, browser_path |-> None,
      wrote |-> FALSE, shots |-> 0, moves |-> 0,
      result |-> None, exc |-> None ]

\* An exception: its type, and the statement that raised it.
Exc(type, origin) == [t |-> "exc", type |-> type, origin |-> origin]

\* get_output_path(output_filename) of pixelle_video.utils.os_util: the file
\* of that name in the output directory, which it creates.
OUTPUT_DIR == << "o","u","t","p","u","t" >>
get_output_path(output_filename) == Join(OUTPUT_DIR, output_filename)

\* generate_frame up to line 421: the image is normalised, the context built,
\* the template substituted, the output path chosen and its directory made.
\* An exception of Path.exists (line 385) or of os.makedirs (line 416)
\* leaves generate_frame as it is.
BeginCall(title, text, image_arg, ext, output_path, uuid) ==
    /\ generator # 0
    /\ call.pc = "idle"
    /\ ncalls < MaxCalls
    /\ LET out == IF output_path = None
                  THEN StrV(get_output_path(<< "f","r","a","m","e","_" >> \o uuid \o << ".","p","n","g" >>))
                  ELSE output_path
           Begun(image, context) ==
               [ Idle EXCEPT !.n = ncalls + 1,
                   !.title = title, !.text = text, !.image = image_arg,
                   !.ext = ext, !.output_path = output_path,
                   !.img = image, !.context = context,
                   !.html = replace_parameters(template, context) ]
           OnImage(image) == Begun(image, BuildContext(title, text, image, ext))
           Made(started, made) ==
               IF ~made.ok
               THEN /\ call' = [ started EXCEPT !.pc = "raised",
                                    !.exc = Exc(made.err, "os.makedirs") ]
                    /\ dirs' = made.dirs
               ELSE /\ call' = [ started EXCEPT !.pc = "ensure_hti", !.out = out,
                                    !.output_filename = StrV(Basename(out.s)) ]
                    /\ dirs' = made.dirs
       IN  IF NormalizeImageRaises(image_arg, dirs, files)
           THEN /\ call' = [ Idle EXCEPT !.pc = "raised", !.n = ncalls + 1,
                                !.title = title, !.text = text, !.image = image_arg,
                                !.ext = ext, !.output_path = output_path,
                                !.exc = Exc("OSError", "Path.exists") ]
                /\ dirs' = dirs
           ELSE Made(OnImage(NormalizeImage(image_arg, dirs, files)),
                     MakeDirs(Dirname(out.s), TRUE, dirs, files))
    /\ ncalls' = ncalls + 1
    /\ UNCHANGED << generator, template_path, template, width, height, hti, sessions, probes,
                    params, subst, host, files >>

\* generate_frame(title, text, image, ext, output_path) called on the generator
Begin ==
    \E args \in ContentArgs, output_path \in OutputPathSet, uuid \in UuidSet :
        /\ output_path # None => uuid = << "a" >>   \* no uuid is drawn
        /\ BeginCall(args[1], args[2], args[3], args[4], output_path, uuid)
        /\ UNCHANGED << nctor, ctor, parses, outside >>

\* _ensure_hti without the test of self.hti: every call makes a session.
EnsureHti_NewSessionEachCall ==
    /\ call.pc = "ensure_hti"
    /\ call' = [ call EXCEPT !.pc = "find_chrome" ]
    /\ UNCHANGED << elsewhere, sessions, probes, template, width, height, hti, params, subst,
                    host, dirs, files, ncalls >>

\* _ensure_hti(self.width, self.height), line 424, outside the try block,
\* as far as its test of self.hti (line 313).  The thread may be suspended
\* between the test and the assignment of line 346: the discovery in
\* between waits for a subprocess.
EnsureHti ==
    /\ call.pc = "ensure_hti"
    /\ call' = [ call EXCEPT !.pc = IF hti # None THEN "screenshot" ELSE "find_chrome" ]
    /\ UNCHANGED << elsewhere, sessions, probes, template, width, height, hti, params, subst,
                    host, dirs, files, ncalls >>

\* browser_path = self._find_chrome_executable(), line 336
FindChromeExecutable ==
    /\ call.pc = "find_chrome"
    /\ probes' = probes + 1
    /\ call' = [ call EXCEPT !.pc = "html2image",
                     !.browser_path = find_chrome_executable(host) ]
    /\ UNCHANGED << elsewhere, sessions, template, width, height, hti, params, subst,
                    host, dirs, files, ncalls >>

\* self.hti = Html2Image(**kwargs), line 346: an exception of
\* Html2Image(...) leaves generate_frame as it is.
NewHtml2Image ==
    /\ call.pc = "html2image"
    /\ IF Html2ImageRaises(host, call.browser_path)
       THEN /\ call' = [ call EXCEPT !.pc = "raised",
                           !.exc = Exc("FileNotFoundError", "Html2Image") ]
            /\ UNCHANGED << hti, sessions >>
       ELSE /\ call' = [ call EXCEPT !.pc = "screenshot" ]
            /\ hti' = Session(width, height, call.browser_path)
            /\ sessions' = sessions + 1
    /\ UNCHANGED << elsewhere, probes, template, width, height, params, subst, host, dirs,
                    files, ncalls >>

\* A file can be written under a name that is a file or is free in an
\* existing directory.
CanWrite(path, ds, fs) ==
    LET Of(t) == t.ok /\ t.kind # "dir" /\ ~t.slash IN Of(Target(path, ds, fs))

\* generate_frame with a second attempt after a failed screenshot.
Screenshot_RetryOnce ==
    /\ call.pc = "screenshot"
    /\ \E outcome \in { "written", "no_file", "raises" } :
        CASE outcome = "written" ->
               /\ CanWrite(Join(Cwd, call.output_filename.s), dirs, files)
               /\ files' = Put(files, Join(Cwd, call.output_filename.s), Raster(call.n))
               /\ call' = [ call EXCEPT !.pc = "relocate", !.wrote = TRUE,
                                 !.shots = call.shots + 1 ]
          [] outcome = "no_file" ->
               /\ files' = files
               /\ call' = [ call EXCEPT !.pc = "relocate", !.shots = call.shots + 1 ]
          [] outcome = "raises" ->
               /\ files' = files
               /\ call' = IF call.shots = 0
                          THEN [ call EXCEPT !.shots = call.shots + 1 ]
                          ELSE [ call EXCEPT !.pc = "raised", !.shots = call.shots + 1,
                                      !.exc = Exc("RuntimeError", "screenshot") ]
    /\ UNCHANGED << elsewhere, sessions, probes, template, width, height, hti, params, subst, host, dirs, ncalls >>

\* generate_frame that discards the session when the screenshot fails.
Screenshot_DropsSession ==
    /\ call.pc = "screenshot"
    /\ \E outcome \in { "written", "no_file", "raises" } :
        CASE outcome = "written" ->
               /\ CanWrite(Join(Cwd, call.output_filename.s), dirs, files)
               /\ files' = Put(files, Join(Cwd, call.output_filename.s), Raster(call.n))
               /\ call' = [ call EXCEPT !.pc = "relocate", !.wrote = TRUE,
                                 !.shots = call.shots + 1 ]
               /\ hti' = hti
          [] outcome = "no_file" ->
               /\ files' = files
               /\ call' = [ call EXCEPT !.pc = "relocate", !.shots = call.shots + 1 ]
               /\ hti' = hti
          [] outcome = "raises" ->
               /\ files' = files
               /\ call' = [ call EXCEPT !.pc = "raised", !.shots = call.shots + 1,
                                 !.exc = Exc("RuntimeError", "screenshot") ]
               /\ hti' = None
    /\ UNCHANGED << elsewhere, sessions, probes, template, width, height, params, subst, host, dirs, ncalls >>

\* self.hti.screenshot(html_str=html, save_as=output_filename), line 429:
\* the rasterizer writes the raster into the working directory under the
\* base filename, or ends without a file, or raises; an exception is wrapped
\* by the except clause of line 443.
Screenshot ==
    /\ call.pc = "screenshot"
    /\ \E outcome \in { "written", "no_file", "raises" } :
        CASE outcome = "written" ->
               /\ CanWrite(Join(Cwd, call.output_filename.s), dirs, files)
               /\ files' = Put(files, Join(Cwd, call.output_filename.s), Raster(call.n))
               /\ call' = [ call EXCEPT !.pc = "relocate", !.wrote = TRUE,
                                 !.shots = call.shots + 1 ]
          [] outcome = "no_file" ->
               /\ files' = files
               /\ call' = [ call EXCEPT !.pc = "relocate", !.shots = call.shots + 1 ]
          [] outcome = "raises" ->
               /\ files' = files
               /\ call' = [ call EXCEPT !.pc = "raised", !.shots = call.shots + 1,
                                 !.exc = Exc("RuntimeError", "screenshot") ]
    /\ UNCHANGED << elsewhere, sessions, probes, template, width, height, hti, params, subst, host, dirs, ncalls >>

\* Lines 435-437: the test of the relocation.  When the file of the working
\* directory exists and the two strings differ the call goes on to the move
\* of line 438; else it returns output_path (line 441).
Relocate ==
    /\ call.pc = "relocate"
    /\ LET temp_file == Join(Cwd, call.output_filename.s)
           output_path == call.out.s
       IN  IF Exists(temp_file, dirs, files) /\ temp_file # output_path
           THEN call' = [ call EXCEPT !.pc = "move" ]
           ELSE call' = [ call EXCEPT !.pc = "returned", !.result = call.out ]
    /\ UNCHANGED << elsewhere, sessions, probes, template, width, height, hti, params, subst, host, dirs, files, ncalls >>

\* Lines 438-441: shutil.move(temp_file, output_path) on the file system as
\* it is now, which need not be the one that line 437 has tested, and the
\* return of output_path.  shutil.move may fail, by what the paths name now
\* or by the host (permissions, a full disk), which the except clause of
\* line 443 wraps.
Move ==
    /\ call.pc = "move"
    /\ LET temp_file == Join(Cwd, call.output_filename.s)
           output_path == call.out.s
       IN  \E moved \in MoveFile(temp_file, output_path, dirs, files), fails \in BOOLEAN :
              IF ~fails /\ moved.ok
              THEN /\ files' = moved.files
                   /\ dirs' = moved.dirs
                   /\ call' = [ call EXCEPT !.pc = "returned", !.result = call.out,
                                     !.moves = call.moves + 1 ]
              ELSE /\ files' = IF fails THEN files ELSE moved.files
                   /\ dirs' = IF fails THEN dirs ELSE moved.dirs
                   /\ call' = [ call EXCEPT !.pc = "raised", !.moves = call.moves + 1,
                                     !.exc = Exc("RuntimeError", "shutil.move") ]
    /\ UNCHANGED << elsewhere, sessions, probes, template, width, height, hti, params, subst, host, ncalls >>

\* The caller takes the result or the exception.
Finish ==
    /\ call.pc \in { "returned", "raised" }
    /\ call' = Idle
    /\ UNCHANGED << elsewhere, sessions, probes, template, width, height, hti, params, subst, host, dirs, files, ncalls >>

\* ------------------------------------------------- two callers at a time

\* The attributes of the generator in use, as one record.
GeneratorState ==
    [ generator |-> generator, template_path |-> template_path, template |-> template,
      width |-> width, height |-> height, hti |-> hti,
      sessions |-> sessions, probes |-> probes ]

\* generate_frame(...) called by one of the two callers, with an explicit
\* output path or none.
BeginPeer ==
    \E output_path \in { None, O_dir, O_dir2 }, uuid \in UuidSet :
        /\ peer.t = "calls"
        /\ output_path # None => uuid = << "a" >>
        /\ BeginCall(A_title, A_text, I_https, None, output_path, uuid)
        /\ UNCHANGED << nctor, ctor, parses, outside >>

\* The other caller's call runs on: between two statements of
\* generate_frame when the callers do not serialize their calls, and only
\* between two calls when they do.  The call that ran waits with its
\* locals; a caller with a generator of its own has that generator's
\* attributes, the file system is the one of the process.
Switch ==
    /\ peer.t = "calls"
    /\ peer.serialized => call.pc = "idle"
    /\ call' = peer.call
    /\ IF peer.own_generator
       THEN /\ peer' = [ peer EXCEPT !.call = call, !.gen = GeneratorState ]
            /\ generator' = peer.gen.generator
            /\ template_path' = peer.gen.template_path
            /\ template' = peer.gen.template
            /\ width' = peer.gen.width /\ height' = peer.gen.height
            /\ hti' = peer.gen.hti
            /\ sessions' = peer.gen.sessions /\ probes' = peer.gen.probes
       ELSE /\ peer' = [ peer EXCEPT !.call = call ]
            /\ UNCHANGED << generator, template_path, template, width, height,
                            hti, sessions, probes >>
    /\ UNCHANGED << params, parses, subst, host, dirs, files, ncalls, nctor, ctor, cfgVars, req >>

\* ------------------------------------------------------------ construction

\* Bound: the number of generators constructed.
MaxGens == 2

\* The segments of a path: the texts between its "/".
RECURSIVE PathSegments(_)
PathSegments(path) ==
    IF LastSlash(path) = 0 THEN << path >>
    ELSE Append(PathSegments(SubSeq(path, 1, LastSlash(path) - 1)), Basename(path))

AllDigits(s) == s # << >> /\ \A i \in DOMAIN s : s[i] \in Digit

\* A WIDTHxHEIGHT token: digits, an x, digits.
IsSizeToken(seg) ==
    \E i \in DOMAIN seg :
        /\ seg[i] = "x"
        /\ AllDigits(SubSeq(seg, 1, i - 1))
        /\ AllDigits(SubSeq(seg, i + 1, Len(seg)))

SizeOfToken(seg) ==
    LET i == CHOOSE k \in DOMAIN seg : seg[k] = "x"
    IN  << DigitsValue(SubSeq(seg, 1, i - 1)), DigitsValue(SubSeq(seg, i + 1, Len(seg))) >>

\* The configured fallback size.
FALLBACK_SIZE == << 1080, 1920 >>

\* A size resolver that reads the token as HEIGHTxWIDTH.
parse_template_size_HeightFirst(path) ==
    LET segs == PathSegments(path)
        hits == { i \in DOMAIN segs : IsSizeToken(segs[i]) }
        Turned(size) == << size[2], size[1] >>
    IN  IF hits = {} THEN FALLBACK_SIZE
        ELSE Turned(SizeOfToken(segs[CHOOSE i \in hits : \A j \in hits : i <= j]))

\* parse_template_size(template_path) of pixelle_video.utils.template_util:
\* the width and height of the path's first WIDTHxHEIGHT segment, the
\* fallback size when it has none.
parse_template_size(path) ==
    LET segs == PathSegments(path)
        hits == { i \in DOMAIN segs : IsSizeToken(segs[i]) }
    IN  IF hits = {} THEN FALLBACK_SIZE
        ELSE SizeOfToken(segs[CHOOSE i \in hits : \A j \in hits : i <= j])

\* _load_template that reads the default template when the path names nothing.
load_template_Default(path, ds, fs) ==
    LET Of(st) ==
            IF ~st.ok /\ st.err = "OSError"
            THEN [ok |-> FALSE, exc |-> Exc("OSError", "Path.exists")]
            ELSE IF ~st.ok
            THEN [ok |-> TRUE, content |-> fs[Resolve(TP_default)].text]
            ELSE IF st.kind = "dir"
            THEN [ok |-> FALSE, exc |-> Exc("IsADirectoryError", "open")]
            ELSE [ok |-> TRUE, content |-> fs[st.path].text]
    IN  Of(Stat(PathStr(path), ds, fs))

\* _load_template(template_path), with path = Path(template_path):
\* FileNotFoundError("Template not found: ...") when path does not exist,
\* else the text open(path) and read() give; open() of a directory raises,
\* and Path.exists() passes on the OSError of a name that is too long.
load_template(path, ds, fs) ==
    LET Of(st) ==
            IF ~st.ok /\ st.err = "OSError"
            THEN [ok |-> FALSE, exc |-> Exc("OSError", "Path.exists")]
            ELSE IF ~st.ok
            THEN [ok |-> FALSE, exc |-> Exc("FileNotFoundError", "_load_template")]
            ELSE IF st.kind = "dir"
            THEN [ok |-> FALSE, exc |-> Exc("IsADirectoryError", "open")]
            ELSE [ok |-> TRUE, content |-> fs[st.path].text]
    IN  Of(Stat(PathStr(path), ds, fs))

\* __init__, line 54: self.width, self.height = parse_template_size(template_path)
InitSize(path) == parse_template_size(path)

\* HTMLFrameGenerator(template_path), lines 43-58.  An exception of
\* _load_template leaves __init__, and the caller gets no object: what it
\* held before is what it holds.  _check_linux_dependencies only logs.  The
\* new object takes the place of the one the caller held, so no render call
\* is in progress.
ConstructOn(path) ==
    /\ call.pc = "idle"
    /\ nctor < MaxGens
    /\ LET Loaded(loaded) ==
               IF ~loaded.ok
               THEN /\ ctor' = [done |-> TRUE, template_path |-> StrV(path),
                                result |-> 0, exc |-> loaded.exc]
                    /\ UNCHANGED << generator, template_path, template, width, height,
                                    hti, sessions, probes, params, parses, subst, call >>
               ELSE /\ ctor' = [done |-> TRUE, template_path |-> StrV(path),
                                result |-> nctor + 1, exc |-> None]
                    /\ generator' = nctor + 1
                    /\ template_path' = StrV(path)
                    /\ template' = loaded.content
                    /\ width' = InitSize(path)[1]
                    /\ height' = InitSize(path)[2]
                    /\ hti' = None
                    /\ sessions' = 0 /\ probes' = 0
                    /\ params' = NotCalled /\ parses' = << >> /\ subst' = NotCalled
                    /\ call' = Idle
       IN  Loaded(load_template(path, dirs, files))
    /\ nctor' = nctor + 1
    /\ UNCHANGED << host, dirs, files, ncalls >>

\* The caller constructs a generator on a template path.
Construct ==
    \E path \in TemplatePathSet :
        /\ ConstructOn(path)
        /\ UNCHANGED outside

\* generate_frame(title, text, image, output_path=...) with no output path,
\* a usable and an unusable one
BeginGen ==
    \E output_path \in { None, O_dir, O_bare }, uuid \in UuidSet :
        /\ output_path # None => uuid = << "a" >>   \* no uuid is drawn
        /\ BeginCall(A_title, A_text, I_https, None, output_path, uuid)
        /\ UNCHANGED << nctor, ctor, parses, outside >>

\* ---------------------------------------------------- POST /frame/render

\* resolve_template_path(template) of pixelle_video.utils.template_util: the
\* absolute path of the template of that key below templates/ or
\* data/templates/; FileNotFoundError when neither has it.
resolve_template_path(key, ds, fs) ==
    LET builtin == Join(Join(Cwd, TEMPLATES_DIR), key)
        custom == Join(Join(Cwd, DATA_TEMPLATES_DIR), key)
    IN  IF Exists(builtin, ds, fs) THEN [ok |-> TRUE, path |-> builtin]
        ELSE IF Exists(custom, ds, fs) THEN [ok |-> TRUE, path |-> custom]
        ELSE [ok |-> FALSE, exc |-> Exc("FileNotFoundError", "resolve_template_path")]

\* str(e): the message of the exception, which is that of the statement
\* that raised it, without the exception's type.
str(e) == [message_of |-> e.origin]

\* An except clause that catches RuntimeError only: any other exception
\* reaches the framework, which answers 500 without the message.
HTTPException500_OnlyRuntimeError(e) ==
    IF e.type = "RuntimeError" THEN [status |-> 500, detail |-> str(e)]
    ELSE [status |-> 500, detail |-> [message_of |-> "Internal Server Error"]]

\* Lines 81-83: HTTPException(status_code=500, detail=str(e))
HTTPException500(e) == [status |-> 500, detail |-> str(e)]

\* Lines 75-79: FrameRenderResponse(frame_path=..., width=..., height=...)
FrameRenderResponse(frame_path, w, ht) ==
    [status |-> 200, frame_path |-> frame_path, width |-> w, height |-> ht]

\* The requests: FrameRenderRequest(template, title, text, image)
RequestSet ==
    { [template |-> key, title |-> title, text |-> A_text, image |-> I_https] :
        key \in TemplateKeySet, title \in { None, A_title } }

\* render_frame up to line 66: the template key is resolved, the size is
\* parsed from the path and a generator is constructed on the path; an
\* exception of any of these is answered by the except clause of line 81.
RenderFrameOpen ==
    /\ req.pc \in { "none", "responded" }
    /\ \E request \in RequestSet :
          LET Resolved(resolved) ==
                  IF ~resolved.ok
                  THEN /\ req' = [pc |-> "responded", request |-> request,
                                  response |-> HTTPException500(resolved.exc)]
                       /\ UNCHANGED << generator, template_path, template, width, height,
                                       hti, sessions, probes, params, parses, subst,
                                       host, dirs, files, call, ncalls, nctor, ctor >>
                  ELSE /\ ConstructOn(resolved.path)
                       /\ req' = IF ctor'.exc # None
                                 THEN [pc |-> "responded", request |-> request,
                                       response |-> HTTPException500(ctor'.exc)]
                                 ELSE [pc |-> "generate", request |-> request,
                                       template_path |-> resolved.path,
                                       width |-> parse_template_size(resolved.path)[1],
                                       height |-> parse_template_size(resolved.path)[2],
                                       generator |-> ctor'.result]
          IN  Resolved(resolve_template_path(request.template, dirs, files))
    /\ UNCHANGED << cfgVars, peer >>

\* Line 69: generator.generate_frame(title=..., text=..., image=...)
RenderFrameGenerate ==
    /\ req.pc = "generate"
    /\ \E uuid \in UuidSet :
          BeginCall(req.request.title, req.request.text, req.request.image, None, None, uuid)
    /\ req' = [req EXCEPT !.pc = "awaiting"]
    /\ UNCHANGED << nctor, ctor, parses, cfgVars, peer >>

\* Lines 75-83: the frame path with the size parsed at line 63, or the
\* exception of generate_frame as HTTPException 500.
RenderFrameRespond ==
    /\ req.pc = "awaiting"
    /\ call.pc \in { "returned", "raised" }
    /\ req' = [pc |-> "responded", request |-> req.request,
               response |-> IF call.pc = "returned"
                            THEN FrameRenderResponse(call.result, req.width, req.height)
                            ELSE HTTPException500(call.exc)]
    /\ call' = Idle
    /\ UNCHANGED << generator, template_path, template, width, height, hti, sessions, probes,
                    params, parses, subst, host, dirs, files, ncalls, nctor, ctor, cfgVars, peer >>

\* ------------------------------------------------------------ ConfigManager

\* An object as super().__new__(cls) makes it: without attributes.
NewObject == [config_path |-> None, config |-> None, initialized |-> FALSE]

\* _load(): the configuration of the file, or the exception of
\* load_config_dict and PixelleVideoConfig(**data); _validate_template only
\* logs.
Load(path, cfs) ==
    IF cfs[path].valid THEN [ok |-> TRUE, config |-> cfs[path].config]
    ELSE [ok |-> FALSE, exc |-> Exc("ValidationError", "_load")]

\* deep_merge(base, updates), lines 90-96: a key of updates whose value and
\* whose value in base are both dicts is merged in turn; any other key of
\* updates takes the value of updates.
RECURSIVE deep_merge(_, _)
deep_merge(base, updates) ==
    Dict([key \in DOMAIN base.d \cup DOMAIN updates.d |->
            IF key \notin DOMAIN updates.d THEN base.d[key]
            ELSE IF /\ key \in DOMAIN base.d
                    /\ base.d[key].t = "dict"
                    /\ updates.d[key].t = "dict"
            THEN deep_merge(base.d[key], updates.d[key])
            ELSE updates.d[key]])

\* The updates of set_llm_config and of a caller of update()
UpdateSet ==
    { Dict([ llm |-> Dict([ api_key |-> StrV(<< "k","2" >>), model |-> StrV(<< "m" >>) ]) ]),
      Dict([ llm |-> Dict([ model |-> StrV(<< "m" >>) ]) ]),
      Dict([ comfyui |-> Dict([ image |-> Dict([ prompt_prefix |-> StrV(<< "p" >>) ]) ]) ]) }

\* Bound: the number of ConfigManager(...) calls made.
MaxManagerCalls == 3

\* An __init__ that has no test of _initialized.
AlreadyInitialized_Never(self) == FALSE

\* hasattr(self, '_initialized'), line 40
AlreadyInitialized(self) == self.initialized

\* ConfigManager(config_path): __new__ makes the object when the class has
\* none and returns the object of the class; __init__ returns at once on an
\* initialized object, else stores the path, loads the configuration, and
\* marks the object initialized.  When _load raises, the path is stored, the
\* object stays uninitialized and remains the object of the class.
ConfigManagerCall ==
    /\ cm_call.n < MaxManagerCalls
    /\ \E config_path \in ConfigPathSet :
          LET objs == IF instance = 0 THEN Append(managers, NewObject) ELSE managers
              id == IF instance = 0 THEN Len(managers) + 1 ELSE instance
              loaded == Load(config_path, config_files)
              returned(result, exc) ==
                  [n |-> cm_call.n + 1, config_path |-> config_path, result |-> result, exc |-> exc]
          IN  /\ instance' = id
              /\ IF AlreadyInitialized(objs[id])
                 THEN /\ managers' = objs
                      /\ cm_call' = returned(id, None)
                 ELSE IF ~loaded.ok
                 THEN /\ managers' = [objs EXCEPT ![id].config_path = StrV(config_path)]
                      /\ cm_call' = returned(0, loaded.exc)
                 ELSE /\ managers' = [objs EXCEPT ![id] =
                                        [config_path |-> StrV(config_path),
                                         config |-> loaded.config, initialized |-> TRUE]]
                      /\ cm_call' = returned(id, None)
    /\ UNCHANGED << generator, template_path, template, width, height, hti, sessions, probes,
                    params, parses, subst, host, dirs, files, call, ncalls, nctor, ctor,
                    config_files, req, peer >>

\* What the methods of the manager leave alone.
besides ==
    << generator, template_path, template, width, height, hti, sessions, probes,
       params, parses, subst, host, dirs, files, call, ncalls, nctor, ctor,
       instance, cm_call, req, peer >>

\* config_manager.reload(): the configuration is loaded again from the
\* stored path; when _load raises, the configuration stays.
Reload ==
    /\ instance # 0
    /\ managers[instance].config_path # None
    /\ LET loaded == Load(managers[instance].config_path.s, config_files)
       IN  managers' = IF loaded.ok THEN [managers EXCEPT ![instance].config = loaded.config]
                       ELSE managers
    /\ UNCHANGED << besides, config_files >>

\* config_manager.update(updates), also through set_llm_config
Update ==
    /\ instance # 0
    /\ managers[instance].config # None
    /\ \E updates \in UpdateSet :
          managers' = [managers EXCEPT ![instance].config = deep_merge(@, updates)]
    /\ UNCHANGED << besides, config_files >>

\* config_manager.save(): the configuration is written to the stored path.
Save ==
    /\ instance # 0
    /\ managers[instance].config # None
    /\ config_files' = [config_files EXCEPT ![managers[instance].config_path.s] =
                            Valid(managers[instance].config)]
    /\ UNCHANGED << besides, managers >>

\* The reset of the settings page: config_manager.config =
\* PixelleVideoConfig(), then config_manager.save().
ResetConfig ==
    /\ instance # 0
    /\ managers[instance].config_path # None
    /\ managers' = [managers EXCEPT ![instance].config = DefaultConfig]
    /\ config_files' = [config_files EXCEPT ![managers[instance].config_path.s] =
                            Valid(DefaultConfig)]
    /\ UNCHANGED besides

\* ------------------------------------------------------ the specifications

\* The schema of one placeholder: a template {{p...}}{{x:number=3.5}} whose
\* first placeholder declares any of the types, or none, with any default
\* literal over a few characters, or none.
N_p == << "p" >>
T_foo == << "f","o","o" >>
DeclaredTypes == { None, StrV(W_text), StrV(W_number), StrV(W_color), StrV(W_bool), StrV(T_foo) }
SchemaTemplates ==
    { Flatten(<< Ph(N_p, ty, lit), P_x_number >>) :
        ty \in DeclaredTypes, lit \in { None } \cup { StrV(l) : l \in LiteralSet } }

InitSchema ==
    /\ generator = 1
    /\ template_path = StrV(TP_default)
    /\ template \in SchemaTemplates
    /\ width = 1080 /\ height = 1920
    /\ hti = None
    /\ sessions = 0 /\ probes = 0
    /\ nctor = 0 /\ ctor = NotCalled
    /\ NoManager /\ NoRequest /\ NoPeer
    /\ parses = << >>
    /\ params = NotCalled
    /\ subst = NotCalled
    /\ host \in { h \in HostSet : ~h.default_browser }
    /\ dirs = InitialDirs
    /\ files = << >>
    /\ call = Idle
    /\ ncalls = 0

NextSchema == ParseTemplateParameters

SpecSchema == InitSchema /\ [][NextSchema]_vars

\* The DSL alone: a template, parsed and substituted under variable contexts.
InitDSL ==
    /\ generator = 1
    /\ template_path = StrV(TP_default)
    /\ template \in TemplateSet
    /\ width = 1080 /\ height = 1920
    /\ hti = None
    /\ sessions = 0 /\ probes = 0
    /\ nctor = 0 /\ ctor = NotCalled
    /\ NoManager /\ NoRequest /\ NoPeer
    /\ parses = << >>
    /\ params = NotCalled
    /\ subst = NotCalled
    /\ host \in { h \in HostSet : ~h.default_browser }
    /\ dirs = InitialDirs
    /\ files = << >>
    /\ call = Idle
    /\ ncalls = 0

NextDSL == ParseTemplateParameters \/ ReplaceParameters

SpecDSL == InitDSL /\ [][NextDSL]_vars

\* The tokens of the DSL: templates with near-placeholders, parsed and
\* substituted under contexts whose values hold placeholder syntax.
InitTokens ==
    /\ generator = 1
    /\ template_path = StrV(TP_default)
    /\ template \in TokenTemplates
    /\ width = 1080 /\ height = 1920
    /\ hti = None
    /\ sessions = 0 /\ probes = 0
    /\ nctor = 0 /\ ctor = NotCalled
    /\ NoManager /\ NoRequest /\ NoPeer
    /\ parses = << >>
    /\ params = NotCalled
    /\ subst = NotCalled
    /\ host \in { h \in HostSet : ~h.default_browser }
    /\ dirs = InitialDirs
    /\ files = << >>
    /\ call = Idle
    /\ ncalls = 0

NextTokens == ParseTemplateParameters \/ ReplaceTokens

SpecTokens == InitTokens /\ [][NextTokens]_vars

\* A generator after construction, and its render calls one at a time.
Init ==
    /\ \E tpl \in RenderTemplates :
          /\ template_path = StrV(tpl.path)
          /\ template = tpl.text
          /\ width = tpl.size[1] /\ height = tpl.size[2]
    /\ generator = 1
    /\ hti = None
    /\ sessions = 0 /\ probes = 0
    /\ nctor = 0 /\ ctor = NotCalled
    /\ NoManager /\ NoRequest /\ NoPeer
    /\ parses = << >>
    /\ params = NotCalled
    /\ subst = NotCalled
    /\ host \in HostSet
    /\ dirs = InitialDirs
    /\ files \in InitialFilesSet
    /\ call = Idle
    /\ ncalls = 0

Next == Begin \/ EnsureHti \/ FindChromeExecutable \/ NewHtml2Image \/ Screenshot \/ Relocate \/ Move \/ Finish

Spec == Init /\ [][Next]_vars

\* The variable context of render calls: every combination of title, image
\* and ext on a host with a browser, with one output path.
InitContext ==
    /\ Init
    /\ find_chrome_executable(host) # None

BeginContext ==
    \E args \in ContentArgs :
        /\ BeginCall(args[1], args[2], args[3], args[4], O_dir, << "a" >>)
        /\ UNCHANGED << nctor, ctor, parses, outside >>

NextContext == BeginContext \/ EnsureHti \/ FindChromeExecutable \/ NewHtml2Image \/ Screenshot \/ Relocate \/ Move \/ Finish

SpecContext == InitContext /\ [][NextContext]_vars

\* The life of generators: the caller constructs one on a template path,
\* renders with it, and constructs the next.
InitGen ==
    /\ generator = 0
    /\ template_path = None
    /\ template = << >>
    /\ width = 0 /\ height = 0
    /\ hti = None
    /\ sessions = 0 /\ probes = 0
    /\ params = NotCalled
    /\ parses = << >>
    /\ subst = NotCalled
    /\ host \in { h \in HostSet : h.os_name = "posix" /\ \A i \in DOMAIN Candidates : ~h.cand[i].exists \/ h.cand[i].readlink # None }
    /\ dirs = InitialDirs \cup TemplateDirs
    /\ files = TemplateFiles
    /\ call = Idle
    /\ ncalls = 0
    /\ nctor = 0
    /\ ctor = NotCalled
    /\ NoManager /\ NoRequest /\ NoPeer

NextGen ==
    \/ Construct
    \/ BeginGen \/ EnsureHti \/ FindChromeExecutable \/ NewHtml2Image \/ Screenshot \/ Relocate \/ Move \/ Finish

SpecGen == InitGen /\ [][NextGen]_vars

\* The router: render requests, one at a time, each with its own generator.
InitApi == InitGen

NextApi ==
    \/ RenderFrameOpen \/ RenderFrameGenerate
    \/ EnsureHti \/ FindChromeExecutable \/ NewHtml2Image \/ Screenshot \/ Relocate \/ Move
    \/ RenderFrameRespond

SpecApi == InitApi /\ [][NextApi]_vars

\* Two callers in one process: on one generator or each on its own, with
\* their calls serialized or not.
InitPeer ==
    /\ generator = 1
    /\ template_path = StrV(TP_default)
    /\ template = Flatten(<< P_title, P_text, P_image >>)
    /\ width = InitSize(TP_default)[1] /\ height = InitSize(TP_default)[2]
    /\ hti = None
    /\ sessions = 0 /\ probes = 0
    /\ nctor = 0 /\ ctor = NotCalled
    /\ NoManager /\ NoRequest
    /\ \E serialized \in BOOLEAN, own_generator \in BOOLEAN :
          peer = [ t |-> "calls", serialized |-> serialized, own_generator |-> own_generator,
                   call |-> Idle,
                   gen |-> IF own_generator
                           THEN [ generator |-> 2, template_path |-> StrV(TP_wide),
                                  template |-> Flatten(<< P_image, P_x >>),
                                  width |-> InitSize(TP_wide)[1], height |-> InitSize(TP_wide)[2],
                                  hti |-> None, sessions |-> 0, probes |-> 0 ]
                           ELSE [ generator |-> 1 ] ]
    /\ parses = << >>
    /\ params = NotCalled
    /\ subst = NotCalled
    /\ host \in { h \in HostSet : find_chrome_executable(h) # None }
    /\ dirs = InitialDirs
    /\ files = << >>
    /\ call = Idle
    /\ ncalls = 0

NextPeer == BeginPeer \/ EnsureHti \/ FindChromeExecutable \/ NewHtml2Image \/ Screenshot \/ Relocate \/ Move \/ Finish \/ Switch

SpecPeer == InitPeer /\ [][NextPeer]_vars

\* The configuration manager: constructions, reloads, updates and saves.
InitConfig == InitGen

NextConfig == ConfigManagerCall \/ Reload \/ Update \/ Save \/ ResetConfig

SpecConfig == InitConfig /\ [][NextConfig]_vars

\* --------------------------------------------------------------- the claims

\* What the specification says a context value is written as: a boolean as
\* the word true or false, None as nothing, anything else as its string.
Stringified(v) ==
    IF v.t = "bool" THEN (IF v.b THEN W_true ELSE W_false)
    ELSE IF v.t = "none" THEN << >>
    ELSE IF v.t = "int" THEN v.dec
    ELSE IF v.t = "float" THEN v.repr
    ELSE v.s

\* What one segment of the template becomes under the precedence of the
\* substitution: context value, else own inline default, else nothing.
ExpectedPiece(seg, values) ==
    IF seg.kind = "lit" THEN seg.text
    ELSE IF seg.name \in DOMAIN values THEN Stringified(values[seg.name])
    ELSE IF seg.default # None THEN seg.default.s
    ELSE << >>

RECURSIVE ExpectedHtml(_, _)
ExpectedHtml(segs, values) ==
    IF segs = << >> THEN << >>
    ELSE ExpectedPiece(Head(segs), values) \o ExpectedHtml(Tail(segs), values)

SegNames(segs) == { segs[i].name : i \in { j \in DOMAIN segs : segs[j].kind = "ph" } }
CustomNames(segs) == SegNames(segs) \ PRESET_PARAMS
FirstOf(segs, name) ==
    segs[CHOOSE i \in DOMAIN segs :
            /\ segs[i].kind = "ph" /\ segs[i].name = name
            /\ \A j \in 1..(i - 1) : ~(segs[j].kind = "ph" /\ segs[j].name = name)]
DeclaredType(seg) ==
    IF seg.type = None THEN W_text
    ELSE IF seg.type.s \in SUPPORTED_TYPES THEN seg.type.s ELSE W_text
Entry(ps, name) == ps[CHOOSE i \in DOMAIN ps : ps[i].name = name]
Before(segs, i) == SubSeq(segs, 1, i - 1)
After(segs, i) == SubSeq(segs, i + 1, Len(segs))

\* C1: every placeholder occurrence is replaced by the stringified context
\* value when the context has its name, otherwise by its own inline default
\* text as written, otherwise by the empty string.
C1_ReplacementPrecedence ==
    subst.done =>
        \A segs \in Segmentations(template) :
            subst.html = ExpectedHtml(segs, subst.values)

C1_Witness ==
    /\ subst.done
    /\ template = Flatten(<< P_x_number, P_c_color >>)
    /\ subst.values = [k \in {N_x} |-> IntV(12)]
    /\ subst.html = << "1","2" >> \o T_ff0000

\* C2: the parsed mapping has exactly one entry per distinct non-reserved
\* placeholder name, with the type and default of the first occurrence of
\* the name; later occurrences never change it.
C2_FirstOccurrenceWins ==
    params.done =>
        \A segs \in Segmentations(template) :
            /\ ParamNames(params.value) = CustomNames(segs)
            /\ Len(params.value) = Cardinality(CustomNames(segs))
            /\ \A name \in CustomNames(segs) :
                  LET first == FirstOf(segs, name)
                      entry == Entry(params.value, name)
                  IN  /\ entry.type = DeclaredType(first)
                      /\ entry.default =
                            parse_default_value(DeclaredType(first), first.default)

C2_Witness ==
    /\ params.done
    /\ template = Flatten(<< P_x_number, P_x_color >>)
    /\ params.value = << [ name |-> N_x, type |-> W_number,
                           default |-> FloatV(<< "3", ".", "5" >>), label |-> N_x ] >>

\* C3: no reserved built-in name is ever a key of the parsed schema,
\* whatever its placeholders carry, and placeholders with those names are
\* still replaced by the substitution.
C3_ReservedNames ==
    /\ params.done => ParamNames(params.value) \cap PRESET_PARAMS = {}
    /\ subst.done =>
          \A segs \in Segmentations(template) :
              \A i \in DOMAIN segs :
                  (segs[i].kind = "ph" /\ segs[i].name \in PRESET_PARAMS) =>
                      subst.html =
                          ExpectedHtml(Before(segs, i), subst.values)
                          \o ExpectedPiece(segs[i], subst.values)
                          \o ExpectedHtml(After(segs, i), subst.values)

C3_Witness ==
    /\ params.done /\ subst.done
    /\ template = Flatten(<< P_title, P_x >>)
    /\ params.value = << [ name |-> N_x, type |-> W_text,
                           default |-> StrV(<< >>), label |-> N_x ] >>
    /\ W_title \in DOMAIN subst.values
    /\ subst.html = << "T" >>

\* C4: every occurrence of a repeated name is replaced in the one pass, and
\* with no context value each occurrence gets its own inline default (or the
\* empty string), not the default of the first occurrence.
C4_PerOccurrence ==
    subst.done =>
        \A segs \in Segmentations(template) :
            \A i, j \in DOMAIN segs :
                ( /\ i < j
                  /\ segs[i].kind = "ph" /\ segs[j].kind = "ph"
                  /\ segs[i].name = segs[j].name
                  /\ segs[i].name \notin DOMAIN subst.values ) =>
                    subst.html =
                        ExpectedHtml(Before(segs, i), subst.values)
                        \o (IF segs[i].default = None THEN << >> ELSE segs[i].default.s)
                        \o ExpectedHtml(SubSeq(segs, i + 1, j - 1), subst.values)
                        \o (IF segs[j].default = None THEN << >> ELSE segs[j].default.s)
                        \o ExpectedHtml(After(segs, j), subst.values)

C4_Witness ==
    /\ subst.done
    /\ template = Flatten(<< P_x_number, P_x_color >>)
    /\ subst.values = << >>
    /\ subst.html = T_35 \o << "#","0","f","0" >>

\* C5 as stated: for {{color=ff0000}} with no context value the
\* substitution emits ff0000 and the schema default is #ff0000.
C5_Original ==
    \A segs \in Segmentations(template) :
        \A i \in DOMAIN segs :
            segs[i] = P_color =>
                /\ (subst.done /\ W_color \notin DOMAIN subst.values) =>
                      subst.html =
                          ExpectedHtml(Before(segs, i), subst.values)
                          \o T_ff0000
                          \o ExpectedHtml(After(segs, i), subst.values)
                /\ params.done =>
                      Entry(params.value, W_color).default = StrV(<< "#" >> \o T_ff0000)

\* C5 amended: {{color=ff0000}} declares a text parameter named color, so
\* the substitution emits ff0000 and the schema default is the text ff0000;
\* for the color-typed {{c:color=ff0000}} the substitution emits ff0000 and
\* the schema default is the normalized #ff0000.
C5_Amended ==
    \A segs \in Segmentations(template) :
        \A i \in DOMAIN segs :
            /\ segs[i] = P_color =>
                /\ (subst.done /\ W_color \notin DOMAIN subst.values) =>
                      subst.html =
                          ExpectedHtml(Before(segs, i), subst.values)
                          \o T_ff0000
                          \o ExpectedHtml(After(segs, i), subst.values)
                /\ params.done =>
                      /\ Entry(params.value, W_color).type = W_text
                      /\ Entry(params.value, W_color).default = StrV(T_ff0000)
            /\ segs[i] = P_c_color =>
                /\ (subst.done /\ N_c \notin DOMAIN subst.values) =>
                      subst.html =
                          ExpectedHtml(Before(segs, i), subst.values)
                          \o T_ff0000
                          \o ExpectedHtml(After(segs, i), subst.values)
                /\ params.done =>
                      /\ Entry(params.value, N_c).type = W_color
                      /\ Entry(params.value, N_c).default = StrV(<< "#" >> \o T_ff0000)

C5_Witness ==
    /\ params.done /\ subst.done
    /\ template = Flatten(<< P_color, P_c_color >>)
    /\ subst.values = << >>
    /\ subst.html = T_ff0000 \o T_ff0000
    /\ Len(params.value) = 2
    /\ params.value[1].default = StrV(T_ff0000)
    /\ params.value[2].default = StrV(<< "#" >> \o T_ff0000)

\* C6: {{flag:bool}} is substituted as the word true for the context value
\* True and false for False; with no context value (and no inline default)
\* as the empty string, and its schema default is then the boolean False.
C6_BoolPlaceholder ==
    \A segs \in Segmentations(template) :
        \A i \in DOMAIN segs :
            segs[i] = P_flag =>
                /\ subst.done =>
                      subst.html =
                          ExpectedHtml(Before(segs, i), subst.values)
                          \o (IF N_flag \notin DOMAIN subst.values THEN << >>
                              ELSE IF subst.values[N_flag] = BoolV(TRUE)
                              THEN << "t","r","u","e" >>
                              ELSE << "f","a","l","s","e" >>)
                          \o ExpectedHtml(After(segs, i), subst.values)
                /\ (params.done /\ FirstOf(segs, N_flag) = P_flag) =>
                      /\ Entry(params.value, N_flag).type = W_bool
                      /\ Entry(params.value, N_flag).default = BoolV(FALSE)

C6_Witness ==
    /\ params.done /\ subst.done
    /\ template = Flatten(<< P_flag, P_flag >>)
    /\ subst.values = [k \in {N_flag} |-> BoolV(TRUE)]
    /\ subst.html = << "t","r","u","e","t","r","u","e" >>
    /\ params.value = << [ name |-> N_flag, type |-> W_bool,
                           default |-> BoolV(FALSE), label |-> N_flag ] >>

\* The context a render call built, with the image entry replaced.
WithImage(ctx, image) == [k \in DOMAIN ctx |-> IF k = W_image THEN image ELSE ctx[k]]
ExtHasImage == call.ext # None /\ W_image \in DOMAIN call.ext.d
HasScheme(image) == \E scheme \in URI_SCHEMES : StartsWith(image.s, scheme)
IsLocalPath(image) == Truthy(image) /\ ~HasScheme(image)
AbsoluteOf(path) == IF IsAbsolute(path) THEN path ELSE Cwd \o << "/" >> \o path
Started == call.pc # "idle"

\* C7: an image value that starts with http://, https://, data: or file://,
\* and an empty or absent one, leaves the normalisation as it came; it is the
\* image of the variable context and of the substituted markup (when ext
\* does not set image itself).
C7_SchemePassThrough ==
    (Started /\ (~Truthy(call.image) \/ HasScheme(call.image))) =>
        /\ call.img = call.image
        /\ ~ExtHasImage =>
              /\ call.context[W_image] = call.image
              /\ \A segs \in Segmentations(template) :
                    call.html = ExpectedHtml(segs, WithImage(call.context, call.image))

C7_Witness ==
    /\ call.pc = "returned"
    /\ call.image = I_data
    /\ Resolve(I_data.s) \in DOMAIN files
    /\ call.ext = None
    /\ template = Flatten(<< P_title, P_text, P_image >>)
    /\ call.html = << "T", "W" >> \o I_data.s

\* C8 as stated: an image value without a recognized scheme enters the
\* context as the file:// URI of its absolute path, also when the file does
\* not exist.
C8_Original ==
    (Started /\ IsLocalPath(call.image)) =>
        call.img = StrV(<< "f","i","l","e",":","/","/" >> \o AbsoluteOf(call.image.s))

\* C9 as stated: every rendering-surface failure of a render call (the
\* creation of the session, the rasterization, the relocation of the file)
\* reaches the caller as the RuntimeError of generate_frame.
C9_Original ==
    (call.pc = "raised" /\ call.exc.origin \in { "Html2Image", "screenshot", "shutil.move" }) =>
        call.exc.type = "RuntimeError"

\* C10 as stated: a call with an explicit output path that returns, returns
\* that path; the parent directory of the path exists, and the raster of
\* this call is at the path, and no longer in the working directory unless
\* the two are the same file: the frame file is present at the returned path.
C10_Original ==
    (call.pc = "returned" /\ call.output_path # None) =>
        LET dest == Resolve(call.output_path.s)
            temp_file == Cwd \o << "/" >> \o Basename(call.output_path.s)
        IN  /\ call.result = call.output_path
            /\ Dirname(dest) \in dirs
            /\ dest \in DOMAIN files
            /\ files[dest] = Raster(call.n)
            /\ dest # temp_file => temp_file \notin DOMAIN files

\* C11 as stated: a constructor call on a template path that names nothing
\* raises the template-not-found error of _load_template at once and gives
\* the caller no object; the step creates no session and runs no renderer
\* probe, and leaves the generator the caller held, its template and its
\* size as they were.
C11_Original ==
    [][ ( /\ nctor' # nctor
          /\ Resolve(ctor'.template_path.s) \notin DOMAIN files
          /\ Resolve(ctor'.template_path.s) \notin dirs ) =>
            /\ ctor'.exc = Exc("FileNotFoundError", "_load_template")
            /\ ctor'.result = 0
            /\ UNCHANGED << generator, template_path, template, width, height,
                            hti, sessions, probes >> ]_vars

\* A path with a name that is too long for the host, in a directory that is
\* there: Path.exists() raises the OSError of os.stat instead of answering.
NameTooLong(path) ==
    \E i \in DOMAIN SplitSlash(path) :
        /\ TooLong(SplitSlash(path)[i], NAME_MAX)
        /\ i = 1 \/ Resolve(JoinSlash(SubSeq(SplitSlash(path), 1, i - 1))) \in dirs

\* C11 amended: a constructor call on a template path that names nothing
\* fails at once and gives the caller no object: with the template-not-found
\* error of _load_template when Path.exists() answers that the path is not
\* there, and with the OSError that Path.exists() raises when a name of the
\* path is too long to look up; the step creates no session and runs no
\* renderer probe, and leaves the generator the caller held, its template
\* and its size as they were: no other template is loaded in the place of
\* the missing one.
C11_TemplateNotFound ==
    [][ ( /\ nctor' # nctor
          /\ Resolve(ctor'.template_path.s) \notin DOMAIN files
          /\ Resolve(ctor'.template_path.s) \notin dirs ) =>
            /\ ctor'.exc = IF NameTooLong(ctor'.template_path.s)
                           THEN Exc("OSError", "Path.exists")
                           ELSE Exc("FileNotFoundError", "_load_template")
            /\ ctor'.result = 0
            /\ UNCHANGED << generator, template_path, template, width, height,
                            hti, sessions, probes >> ]_vars

\* The caller holds a generator with a session, and the construction of the
\* next on the path with the long name has failed.
C11_Witness ==
    /\ ctor.done
    /\ ctor.template_path = StrV(TP_long)
    /\ ctor.exc = Exc("OSError", "Path.exists")
    /\ ctor.result = 0
    /\ nctor = 2
    /\ generator = 1
    /\ template_path = StrV(TP_wide)
    /\ width = 1920 /\ height = 1080
    /\ hti # None /\ sessions = 1 /\ probes = 1

\* The first placeholder of a schema template as it is written: the text
\* between ":" and "=" is its type, the text between "=" and "}}" its
\* default literal.
SchemaClose == CHOOSE i \in DOMAIN template : template[i] = "}" /\ \A j \in 1..(i - 1) : template[j] # "}"
SchemaEq ==
    IF \E i \in 1..SchemaClose : template[i] = "="
    THEN CHOOSE i \in 1..SchemaClose : template[i] = "=" /\ \A j \in 1..(i - 1) : template[j] # "="
    ELSE 0
WrittenType ==
    IF template[4] = ":"
    THEN StrV(SubSeq(template, 5, (IF SchemaEq # 0 THEN SchemaEq ELSE SchemaClose) - 1))
    ELSE None
WrittenLiteral ==
    IF SchemaEq # 0 THEN StrV(SubSeq(template, SchemaEq + 1, SchemaClose - 1)) ELSE None
\* The entry the parser records for the placeholder that follows.
EntryOfX == [ name |-> N_x, type |-> W_number, default |-> FloatV(<< "3", ".", "5" >>), label |-> N_x ]

\* C13: a placeholder whose written type is none of text, number, color and
\* bool is recorded with type text and with its default literal as written
\* (the empty string when it has none), and the placeholder after it is
\* parsed as well.
C13_UnknownTypeIsText ==
    (params.done /\ WrittenType # None
       /\ WrittenType.s \notin { W_text, W_number, W_color, W_bool }) =>
        params.value =
          << [ name |-> N_p, type |-> W_text,
               default |-> IF WrittenLiteral = None THEN StrV(<< >>) ELSE WrittenLiteral,
               label |-> N_p ],
             EntryOfX >>

C13_Witness ==
    /\ template = Flatten(<< Ph(N_p, StrV(T_foo), StrV(<< "#","1" >>)), P_x_number >>)
    /\ params.done
    /\ params.value =
          << [ name |-> N_p, type |-> W_text, default |-> StrV(<< "#","1" >>), label |-> N_p ],
             EntryOfX >>

\* C14: the default of a number-typed placeholder with a literal is int() of
\* the literal when the literal has no "." and float() of it when it has
\* one; when that raises, the default is the integer 0 and the placeholder
\* after it is parsed as well.
C14_NumberDefault ==
    (params.done /\ WrittenType = StrV(W_number) /\ WrittenLiteral # None) =>
        LET literal == WrittenLiteral.s
            parsed == IF \E i \in DOMAIN literal : literal[i] = "."
                      THEN FloatParse(literal) ELSE IntParse(literal)
        IN  params.value =
              << [ name |-> N_p, type |-> W_number,
                   default |-> IF parsed.ok THEN parsed.value ELSE IntV(0),
                   label |-> N_p ],
                 EntryOfX >>

C14_Witness ==
    /\ template = Flatten(<< Ph(N_p, StrV(W_number), StrV(<< "1",".","e" >>)), P_x_number >>)
    /\ params.done
    /\ params.value =
          << [ name |-> N_p, type |-> W_number, default |-> IntV(0), label |-> N_p ],
             EntryOfX >>

\* C15: a placeholder without a default literal is recorded with the
\* zero-value of its effective type: the empty string for text (also when
\* no type or an unsupported type is written), 0 for number, #000000 for
\* color and false for bool.
C15_ZeroValues ==
    (params.done /\ WrittenLiteral = None) =>
        LET effective == IF WrittenType # None /\ WrittenType.s \in { W_number, W_color, W_bool }
                         THEN WrittenType.s ELSE W_text
            zero == IF effective = W_number THEN IntV(0)
                    ELSE IF effective = W_color THEN StrV(<< "#","0","0","0","0","0","0" >>)
                    ELSE IF effective = W_bool THEN BoolV(FALSE)
                    ELSE StrV(<< >>)
        IN  /\ Len(params.value) = 2
            /\ params.value[1].name = N_p
            /\ params.value[1].type = effective
            /\ params.value[1].default = zero

C15_Witness ==
    /\ template = Flatten(<< Ph(N_p, StrV(W_color), None), P_x_number >>)
    /\ params.done
    /\ params.value[1] =
          [ name |-> N_p, type |-> W_color,
            default |-> StrV(<< "#","0","0","0","0","0","0" >>), label |-> N_p ]

\* C16: the default of a color-typed placeholder is its literal as written
\* when the literal starts with "#", and "#" followed by the literal
\* otherwise; every recorded color default starts with "#", and normalizing
\* a recorded default again gives the same value.
C16_ColorDefault ==
    (params.done /\ WrittenType = StrV(W_color)) =>
        LET recorded == params.value[1].default
        IN  /\ params.value[1].name = N_p
            /\ params.value[1].type = W_color
            /\ WrittenLiteral # None =>
                  recorded = IF WrittenLiteral.s[1] = "#" THEN WrittenLiteral
                             ELSE StrV(<< "#" >> \o WrittenLiteral.s)
            /\ recorded.s[1] = "#"
            /\ parse_default_value(W_color, recorded) = recorded

C16_Witness ==
    /\ template = Flatten(<< Ph(N_p, StrV(W_color), StrV(<< "#","e","1" >>)), P_x_number >>)
    /\ params.done
    /\ params.value[1].default = StrV(<< "#","e","1" >>)

\* The size a template path of the model names: that of its WIDTHxHEIGHT
\* segment, the fallback size for the path that has none.
SizeNamedBy(path) ==
    IF path = TP_default THEN << 1080, 1920 >>
    ELSE IF path = TP_wide THEN << 1920, 1080 >>
    ELSE FALLBACK_SIZE

\* C17: a generator's width and height are those of the WIDTHxHEIGHT
\* segment of its template path, and the fallback size when the path has no
\* such segment; constructing on a path that names a file never fails, with
\* or without a size segment; and as long as the caller holds the same
\* generator its width and height stay what the construction set.
C17_SizeFromPath ==
    /\ [](generator # 0 => << width, height >> = SizeNamedBy(template_path.s))
    /\ []((ctor.done /\ Resolve(ctor.template_path.s) \in DOMAIN files) =>
             (ctor.exc = None /\ ctor.result # 0))
    /\ [][generator' = generator => (width' = width /\ height' = height)]_vars

C17_Witness ==
    /\ generator = 2
    /\ template_path = StrV(TP_custom)
    /\ ctor.exc = None
    /\ width = 1080 /\ height = 1920
    /\ call.pc = "returned"
    /\ hti # None

\* C20 as stated: a generator has no session before its first render call;
\* that call creates the session, with the generator's width and height, so
\* a generator whose render call has ended has a session; and a generator
\* creates at most one session.
C20_Original ==
    /\ (generator # 0 /\ ncalls = 0) => hti = None
    /\ call.pc \in { "returned", "raised" } => hti # None
    /\ hti # None => hti.size = << width, height >>
    /\ sessions <= 1

\* C20 amended: a generator is constructed without a session, and gets one
\* only in a render call, at the creation step of _ensure_hti: a call that
\* raises before that step (Path.exists, os.makedirs) or whose Html2Image(...)
\* raises leaves the generator without a session, and the next call that
\* gets to the step creates it; every call that got past the step, whether
\* it returns or raises later, has the session, and the session has the
\* generator's width and height; once a generator has a session every later
\* render call uses that one: a generator creates at most one session, which
\* is never replaced.
C20_SessionOnce ==
    /\ [](sessions <= 1)
    /\ [](hti = None <=> sessions = 0)
    /\ [](hti # None => hti.size = << width, height >>)
    /\ [](call.pc \in { "screenshot", "relocate", "move", "returned" } => hti # None)
    /\ []((call.pc = "raised" /\ call.exc.origin \in { "screenshot", "shutil.move" }) => hti # None)
    /\ [][(hti = None /\ call'.pc = "raised") => hti' = None]_vars
    /\ [][generator' # generator => hti' = None]_vars
    /\ [][(hti = None /\ hti' # None) =>
            (call.pc = "html2image" /\ call'.pc = "screenshot" /\ generator' = generator)]_vars
    /\ [][(hti # None /\ generator' = generator) => hti' = hti]_vars

\* The second render call on a generator has returned, and the generator
\* has its one session.
C20_Witness ==
    /\ generator = 1
    /\ template_path = StrV(TP_wide)
    /\ call.n = 2
    /\ call.pc = "returned"
    /\ call.output_path = O_dir
    /\ sessions = 1
    /\ probes = 1
    /\ hti.size = << 1920, 1080 >>
    /\ Cwd \o << "/", "o" >> \in dirs

\* C19: the class makes at most one ConfigManager object and every
\* construction that returns, returns that object; a construction on an
\* initialized object, whatever config path it is given, changes neither
\* the stored path nor the loaded configuration.
C19_Singleton ==
    /\ [](Len(managers) <= 1)
    /\ []((cm_call.n > 0 /\ cm_call.exc = None) => (cm_call.result = 1 /\ instance = 1))
    /\ [][ (cm_call'.n # cm_call.n /\ instance # 0 /\ managers[instance].initialized) =>
             (managers' = managers /\ instance' = instance) ]_vars

C19_Witness ==
    /\ cm_call.n = 2
    /\ cm_call.config_path = OTHER_YAML
    /\ cm_call.result = 1
    /\ instance = 1
    /\ managers = << [ config_path |-> StrV(CONFIG_YAML), config |-> Config(<< "k" >>, << "a" >>),
                        initialized |-> TRUE ] >>

\* The size a template key names: that of its WIDTHxHEIGHT segment, else
\* the fallback size.
SizeOfKey(key) == IF key = K_wide THEN << 1920, 1080 >> ELSE FALLBACK_SIZE

\* C18: every request that gets as far as generate_frame does so on a
\* generator constructed for it, which has no session yet; a response of
\* success is given only when generate_frame returned, and carries the path
\* it returned and the width and height the template key names, which are
\* the width and height of the generator's session; a request whose template
\* key names no file, whose template cannot be loaded or whose generate_frame
\* raised is answered with status 500 and the message of that exception.
C18_RenderEndpoint ==
    /\ [][(req'.pc = "generate" /\ req' # req) =>
            /\ nctor' = nctor + 1
            /\ generator' = nctor' /\ generator' # generator
            /\ req'.generator = generator'
            /\ hti' = None /\ sessions' = 0
            /\ template_path' = StrV(req'.template_path)]_vars
    /\ [](req.pc \in { "generate", "awaiting" } => req.generator = generator)
    /\ [][(req'.pc = "responded" /\ req.pc = "awaiting" /\ call.pc = "returned") =>
            /\ req'.response.status = 200
            /\ req'.response.frame_path = call.result
            /\ << req'.response.width, req'.response.height >> = SizeOfKey(req.request.template)
            /\ hti # None
            /\ hti.size = << req'.response.width, req'.response.height >>]_vars
    /\ [][(req'.pc = "responded" /\ req.pc = "awaiting" /\ call.pc = "raised") =>
            req'.response = [status |-> 500, detail |-> [message_of |-> call.exc.origin]]]_vars
    /\ [][(req'.pc = "responded" /\ req.pc # "awaiting" /\ nctor' # nctor) =>
            /\ ctor'.exc # None
            /\ req'.response = [status |-> 500, detail |-> [message_of |-> ctor'.exc.origin]]]_vars
    /\ [](req.pc = "responded" =>
            LET key == req.request.template
            IN  (\A dir \in { TEMPLATES_DIR, DATA_TEMPLATES_DIR } :
                    ~Exists(Join(Join(Cwd, dir), key), dirs, files)) =>
                req.response = [status |-> 500,
                                detail |-> [message_of |-> "resolve_template_path"]])
    /\ [][(req'.pc = "responded" /\ req'.response.status = 200) =>
            (req.pc = "awaiting" /\ call.pc = "returned") \/ req' = req]_vars

C18_Witness ==
    /\ req.pc = "responded"
    /\ req.request.template = K_wide
    /\ req.response.status = 200
    /\ req.response.width = 1920 /\ req.response.height = 1080
    /\ generator = 2
    /\ ctor.exc = None
    /\ hti # None /\ hti.size = << 1920, 1080 >>

\* The ways a text is written as a sequence of segments of a set.
RECURSIVE SegmentationsOver(_, _)
SegmentationsOver(S, txt) ==
    IF txt = << >> THEN { << >> }
    ELSE UNION { { << seg >> \o rest :
                     rest \in SegmentationsOver(S, SubSeq(txt, Len(SegText(seg)) + 1, Len(txt))) } :
                 seg \in { g \in S :
                             /\ Len(SegText(g)) <= Len(txt)
                             /\ SubSeq(txt, 1, Len(SegText(g))) = SegText(g) } }

\* A text in which the pattern matches somewhere.
HasPlaceholder(txt) == \E i \in DOMAIN txt : PatternMatchAt(txt, i).matched

\* The text a value is written as, exactly as given.
RECURSIVE Verbatim(_, _)
Verbatim(segs, values) ==
    IF segs = << >> THEN << >>
    ELSE (IF Head(segs).kind = "lit" THEN Head(segs).text
          ELSE IF Head(segs).name \in DOMAIN values THEN values[Head(segs).name].s
          ELSE IF Head(segs).default # None THEN Head(segs).default.s
          ELSE << >>)
         \o Verbatim(Tail(segs), values)

\* C26: the output of the substitution is the template with each
\* placeholder of the template replaced once: a context value is written
\* exactly as given, also when it holds placeholder syntax or completes one
\* with the text that follows it, and nothing of the output is substituted
\* again.
C26_SinglePass ==
    subst.done =>
        \A segs \in SegmentationsOver(TokenSegments, template) :
            subst.html = Verbatim(segs, subst.values)

C26_Witness ==
    /\ subst.done
    /\ template = Flatten(<< P_x, L_closing >>)
    /\ subst.values = [k \in {N_x} |-> StrV(<< "{","{" >>)]
    /\ subst.html = SegText(P_x)
    /\ HasPlaceholder(subst.html)

\* The names of the schema entries.
SchemaNames(ps) == { ps[i].name : i \in DOMAIN ps }

\* C28: the text of the template that is no placeholder is in the output
\* unchanged, tokens that miss the grammar included; the placeholders the
\* substitution replaces are the placeholders the parser reads: the schema
\* has the non-reserved names of the placeholders and no entry for a token
\* that misses the grammar, and a template without placeholders is its own
\* output and has an empty schema.
C28_SameTokens ==
    \A segs \in SegmentationsOver(TokenSegments, template) :
        /\ subst.done => subst.html = ExpectedHtml(segs, subst.values)
        /\ params.done => SchemaNames(params.value) = CustomNames(segs)
        /\ (\A i \in DOMAIN segs : segs[i].kind = "lit") =>
              /\ subst.done => subst.html = template
              /\ params.done => params.value = << >>

C28_Witness ==
    /\ template = Flatten(<< L_upper_type, L_spaces >>)
    /\ subst.done /\ subst.values = [k \in {N_x} |-> StrV(<< "v" >>)]
    /\ subst.html = template
    /\ params.done /\ params.value = << >>

\* The segments without the placeholders whose context value is None.
RECURSIVE WithoutNone(_, _)
WithoutNone(segs, values) ==
    IF segs = << >> THEN << >>
    ELSE IF /\ Head(segs).kind = "ph"
            /\ Head(segs).name \in DOMAIN values
            /\ values[Head(segs).name] = None
         THEN WithoutNone(Tail(segs), values)
         ELSE << Head(segs) >> \o WithoutNone(Tail(segs), values)

\* C27: title, text and image are keys of the context of every render call,
\* with None for a title or an image that was not given (and that ext does
\* not set); the output is what the template without the placeholders of
\* the None values gives: each of them leaves nothing, its inline default
\* included.
C27_NoneIsEmpty ==
    Started =>
        /\ { W_title, W_text, W_image } \subseteq DOMAIN call.context
        /\ (call.title = None /\ (call.ext = None \/ W_title \notin DOMAIN call.ext.d)) =>
               call.context[W_title] = None
        /\ (call.image = None /\ ~ExtHasImage) => call.context[W_image] = None
        /\ \A segs \in Segmentations(template) :
               call.html = ExpectedHtml(WithoutNone(segs, call.context), call.context)

C27_Witness ==
    /\ call.pc = "returned"
    /\ call.title = None
    /\ call.image = I_https
    /\ call.ext = None
    /\ template = Flatten(<< P_title, P_text, P_image >>)
    /\ P_title.default # None
    /\ call.html = A_text.s \o I_https.s

\* The context as the claim has it: the arguments, the image as it was
\* normalised, and every key of ext over them.
ContextOfCall ==
    [k \in { W_title, W_text, W_image } \cup (IF call.ext = None THEN {} ELSE DOMAIN call.ext.d) |->
        IF call.ext # None /\ k \in DOMAIN call.ext.d THEN call.ext.d[k]
        ELSE IF k = W_title THEN call.title
        ELSE IF k = W_text THEN call.text
        ELSE call.img]

\* C29: in the context of a render call every key of ext has the value ext
\* gives it, also title, text and image; the other keys have the arguments;
\* an image of ext is in the context and in the output as ext gives it, also
\* when it names an existing local file.
C29_ExtPrecedence ==
    Started =>
        /\ call.context = ContextOfCall
        /\ ExtHasImage => call.context[W_image] = call.ext.d[W_image]
        /\ \A segs \in Segmentations(template) :
               call.html = ExpectedHtml(segs, ContextOfCall)

C29_Witness ==
    /\ call.pc = "returned"
    /\ call.ext = E_image
    /\ call.image = I_rel
    /\ Resolve(I_rel.s) \in DOMAIN files
    /\ Resolve(E_image.d[W_image].s) \in DOMAIN files
    /\ call.img = StrV(AsUri(Resolve(I_rel.s)))
    /\ template = Flatten(<< P_image, P_x >>)
    /\ call.html = E_image.d[W_image].s

\* A candidate whose real path is in snap storage.
InSnap(c) == c.readlink # None /\ HasSubstring(c.readlink.s, << "/","s","n","a","p","/" >>)

\* The candidates looked at one after the other, from the i-th on: the
\* first that exists, is executable, whose check answers, and whose real
\* path is not in snap storage.
RECURSIVE ScanFrom(_, _)
ScanFrom(h, i) ==
    IF i > Len(Candidates) THEN None
    ELSE IF ~h.cand[i].exists \/ ~h.cand[i].executable THEN ScanFrom(h, i + 1)
    ELSE IF h.cand[i].readlink = None THEN ScanFrom(h, i + 1)
    ELSE IF InSnap(h.cand[i]) THEN ScanFrom(h, i + 1)
    ELSE StrV(Candidates[i])

\* The candidate of a path.
CandidateAt(h, path) == h.cand[CHOOSE i \in DOMAIN Candidates : Candidates[i] = path.s]

\* C24: on a posix host the session of a generator has the executable that
\* looking at the candidates in their order finds first; that executable is
\* a candidate that exists, is executable and has its real path outside snap
\* storage; when no candidate qualifies (and on a host that is not posix,
\* where none is looked at) the session has no explicit executable.
C24_Discovery ==
    hti # None =>
        /\ host.os_name = "posix" => hti.browser_executable = ScanFrom(host, 1)
        /\ host.os_name # "posix" => hti.browser_executable = None
        /\ hti.browser_executable # None =>
              /\ \E i \in DOMAIN Candidates : Candidates[i] = hti.browser_executable.s
              /\ CandidateAt(host, hti.browser_executable).exists
              /\ CandidateAt(host, hti.browser_executable).executable
              /\ ~InSnap(CandidateAt(host, hti.browser_executable))
        /\ (\A i \in DOMAIN Candidates :
               ~host.cand[i].exists \/ ~host.cand[i].executable
               \/ host.cand[i].readlink = None \/ InSnap(host.cand[i])) =>
              hti.browser_executable = None

C24_Witness ==
    /\ hti # None
    /\ host.os_name = "posix"
    /\ InSnap(host.cand[1])
    /\ hti.browser_executable = StrV(Candidates[3])
    /\ call.pc = "returned"

\* C21 as stated, for callers that serialize their calls: every call that
\* returns, returns a path at which the raster of that very call is.
C21_Original ==
    (peer.t = "calls" /\ peer.serialized /\ call.pc = "returned") =>
        /\ call.result = call.out
        /\ Resolve(call.result.s) \in DOMAIN files
        /\ files[Resolve(call.result.s)] = Raster(call.n)

\* C21, without serialization: two calls with one base filename have both
\* returned, the relocation of one has taken the other call's raster to its
\* own destination, and the other call has returned a path where no file is.
C21_Misdelivery ==
    /\ peer.t = "calls" /\ ~peer.serialized
    /\ call.pc = "returned" /\ call.wrote
    /\ peer.call.pc = "returned" /\ peer.call.wrote
    /\ call.out = O_dir2 /\ peer.call.out = O_dir
    /\ call.output_filename = peer.call.output_filename
    /\ Resolve(call.result.s) \notin DOMAIN files
    /\ Resolve(peer.call.result.s) \in DOMAIN files
    /\ files[Resolve(peer.call.result.s)] = Raster(call.n)

\* C22 as stated: with one generator for each caller, a call that returns
\* after its rasterizer wrote a file has its own raster at its own output
\* path, serialized or not, when the other caller's output path is another.
C22_Original ==
    [][(/\ peer.t = "calls" /\ peer.own_generator
        /\ call.out # peer.call.out
        /\ call.pc \in { "relocate", "move" } /\ call.wrote
        /\ call'.pc = "returned" /\ call'.n = call.n) =>
          /\ Resolve(call'.result.s) \in DOMAIN files'
          /\ files'[Resolve(call'.result.s)] = Raster(call.n)]_vars

\* C23 as stated: the host is probed at most once in the life of a
\* generator, also when a render call failed before.
C23_Original == probes <= 1

\* C25: a render call invokes the rasterizer at most once and shutil.move at
\* most once; a call that got past the rasterizer invoked it exactly once; a
\* call whose rasterization failed has raised after that one invocation,
\* without a file written and without invoking shutil.move, also when a file
\* of its base filename is in the working directory.
C25_NoRetry ==
    /\ call.shots <= 1 /\ call.moves <= 1
    /\ call.pc \in { "relocate", "move", "returned" } => call.shots = 1
    /\ call.pc \in { "idle", "ensure_hti", "find_chrome", "html2image", "screenshot" } => (call.shots = 0 /\ call.moves = 0)
    /\ call.exc = Exc("RuntimeError", "screenshot") =>
          /\ call.pc = "raised"
          /\ call.shots = 1 /\ call.moves = 0
          /\ ~call.wrote

C25_Witness ==
    /\ call.pc = "raised"
    /\ call.exc = Exc("RuntimeError", "screenshot")
    /\ call.n = 2
    /\ call.shots = 1 /\ call.moves = 0
    /\ Join(Cwd, call.output_filename.s) \in DOMAIN files
    /\ call.out.s # Join(Cwd, call.output_filename.s)

\* C30: the template text, the width, the height and the template path of
\* a generator never change, and a session, once created, is never replaced
\* or dropped; the step in which a render call fails changes neither the
\* session nor the count of sessions; every render call, so also one made
\* after a failed one, substitutes into the template text the generator
\* was constructed with, and when it gets to the rasterizer it has the one
\* session of the generator.
C30_FailureLeavesGenerator ==
    /\ [][/\ template' = template /\ template_path' = template_path
           /\ width' = width /\ height' = height]_vars
    /\ [][hti # None => hti' = hti]_vars
    /\ [][(call'.pc = "raised" /\ call.pc # "raised") =>
            (hti' = hti /\ sessions' = sessions /\ generator' = generator)]_vars
    /\ [](Started =>
            \E tpl \in RenderTemplates :
                /\ tpl.path = template_path.s /\ tpl.text = template
                /\ call.html = replace_parameters(tpl.text, call.context))
    /\ [](call.pc \in { "screenshot", "relocate", "move", "returned" } =>
            (hti # None /\ sessions = 1 /\ hti.size = << width, height >>))

\* The first call, to o/f.png, raised at shutil.move: its raster is still in
\* the working directory; the second call has returned.
C30_Witness ==
    /\ call.n = 2
    /\ call.output_path = None
    /\ call.pc = "returned" /\ call.wrote
    /\ sessions = 1 /\ probes = 1
    /\ Dirname(Resolve(O_dir.s)) \in dirs
    /\ Resolve(O_dir.s) \notin DOMAIN files
    /\ Join(Cwd, Basename(O_dir.s)) \in DOMAIN files
    /\ files[Join(Cwd, Basename(O_dir.s))] = Raster(1)
    /\ Resolve(call.result.s) \in DOMAIN files
    /\ files[Resolve(call.result.s)] = Raster(2)

====
